---- MODULE Spec2Model ----
(***************************************************************************)
(* fastview: the catalog (image_loader.rs), the thumbnail cache            *)
(* (cache_manager.rs), the grid/single renderer state (renderer.rs) and    *)
(* the controller with its background thumbnail worker (main.rs).          *)
(*                                                                         *)
(* Pixel coordinates, scroll offsets and sizes are integers (the code's    *)
(* f32/f64 values restricted to whole pixels); zoom factors are exact      *)
(* fractions <<num, den>>.  Paths are sequences of components; component 0 *)
(* is ".", so a path holding a 0 is a non-canonical spelling.              *)
(***************************************************************************)
EXTENDS Integers, Sequences, FiniteSets, TLC

VARIABLES
    mtime,            \* environment: last-modified time of every regular image file
    window,           \* environment: the window's position and inner size
    image_loader,     \* AppState.image_loader {folder_path, items, image_files, current_index}
    renderer,         \* AppState.renderer
    mode,             \* AppState.mode: "Grid" or "Single"
    selected_index,   \* AppState.selected_index
    saved_zoom,       \* AppState.saved_zoom
    is_actual_size,   \* AppState.is_actual_size
    cache,            \* the sled database behind every CacheManager handle
    loader_ch,        \* channel loader_tx -> loader_rx: request batches in flight
    visible_ch,       \* channel visible_indices_tx -> visible_indices_rx: hints in flight
    response_ch,      \* channel response_tx -> response_rx: responses in flight
    worker,           \* the thumbnail thread: its locals and its place in the loop
    socket,           \* environment: the file at the IPC name and whose bind made it
    instance,         \* the processes of the program: where each is in main and in the
                      \* listener thread, its argument, what its connections hold
    ev                \* history: the last operation performed, with its inputs

vars == <<mtime, socket, instance, window, image_loader, renderer, mode, selected_index, saved_zoom,
          is_actual_size, cache, loader_ch, visible_ch, response_ch,
          worker, ev>>

(***************************************************************************)
(* Bounds of the model.                                                    *)
(***************************************************************************)
MaxTime == 2        \* modification times are 1..MaxTime
MaxCells == 5       \* grid cells in the renderer-only specification
MaxPending == 5     \* requests queued for the worker, in flight or received
MaxInFlight == 1    \* messages waiting in one channel to the worker
MaxResponses == 1   \* responses the foreground has not drained yet
MaxHints == 2       \* hints waiting in the channel to the worker
MaxZoomTerm == 600  \* zoom steps stop when a term of the zoom fraction would pass it
MaxPan == 10        \* pan inputs stop when an offset would pass it
MaxEvents == 3      \* events the controller handles after the start

(***************************************************************************)
(* The file system the program runs against.                               *)
(***************************************************************************)
Root == <<>>
Dirs == {<<1>>, <<2>>, <<2, 4>>}     \* <<2, 4>> is an empty directory
ImageFiles == {<<3>>, <<4>>, <<1, 1>>, <<1, 2>>, <<1, 3>>, <<2, 1>>}
OtherFiles == {<<1, 4>>}              \* a file whose extension is not allowed
\* symbolic links whose own name carries an image extension: one to an image of
\* another directory, one whose target is gone
LinkTarget == (<<2, 2>> :> <<1, 1>>) @@ (<<2, 3>> :> <<9>>)
Links == DOMAIN LinkTarget
Entries == Dirs \cup ImageFiles \cup OtherFiles \cup Links
\* image files whose mtime the model varies; the others keep time 1
VariedTimes == {<<4>>, <<1, 2>>}
\* image files whose decode may fail
Flaky == {<<4>>, <<1, 2>>}

NoTime == 0
NoPath == <<0, 0>>

Front(s) == SubSeq(s, 1, Len(s) - 1)
Parent(p) == Front(p)
Range(s) == {s[i] : i \in 1..Len(s)}
Min(a, b) == IF a < b THEN a ELSE b
Max(a, b) == IF a > b THEN a ELSE b
RECURSIVE Perms(_)
Perms(S) == IF S = {} THEN {<<>>}
            ELSE UNION {{<<x>> \o s : s \in Perms(S \ {x})} : x \in S}

\* following a symbolic link (fs::metadata, is_dir, image::open all follow links)
Resolve(p) == IF p \in Links THEN LinkTarget[p] ELSE p
Exists(p) == Resolve(p) = Root \/ Resolve(p) \in Dirs \cup ImageFiles \cup OtherFiles
is_dir(p) == Resolve(p) = Root \/ Resolve(p) \in Dirs
is_file(p) == Resolve(p) \in ImageFiles \cup OtherFiles

\* fs::canonicalize(p).unwrap_or(p): drops "." components and resolves links; fails
\* (and the caller keeps p) when the result does not exist
canonicalize(p) ==
    LET q == Resolve(SelectSeq(p, LAMBDA c : c # 0))
    IN  IF Exists(q) THEN q ELSE p

\* is_image_file: the extension allow-list, decided on the entry's own name
is_image_file(p) == p \in ImageFiles \cup Links

\* fs::read_dir(dir): the entries of a readable directory (their own paths, links
\* unresolved), or nothing when the directory cannot be read
read_dir(dir) == IF is_dir(dir)
                 THEN {p \in Entries : Parent(p) = Resolve(dir)}
                 ELSE {}

\* fs::metadata(p).ok().and_then(|m| m.modified().ok())
modified(p) == IF Resolve(p) \in ImageFiles THEN mtime[Resolve(p)] ELSE NoTime

\* Ord for PathBuf: component-wise lexicographic
RECURSIVE PathCmp(_, _)
PathCmp(a, b) ==
    IF a = <<>> /\ b = <<>> THEN "Equal"
    ELSE IF a = <<>> THEN "Less"
    ELSE IF b = <<>> THEN "Greater"
    ELSE IF Head(a) < Head(b) THEN "Less"
    ELSE IF Head(a) > Head(b) THEN "Greater"
    ELSE PathCmp(Tail(a), Tail(b))

IntCmp(a, b) == IF a < b THEN "Less" ELSE IF a > b THEN "Greater" ELSE "Equal"

(***************************************************************************)
(* slice::sort_by: a stable sort.  For the total preorders used here every *)
(* stable sort yields the same sequence; this one is insertion sort.       *)
(***************************************************************************)
RECURSIVE InsertBy(_, _, _)
InsertBy(Cmp(_, _), sorted, x) ==
    IF sorted = <<>> THEN <<x>>
    ELSE IF Cmp(x, sorted[Len(sorted)]) = "Less"
         THEN Append(InsertBy(Cmp, Front(sorted), x), sorted[Len(sorted)])
         ELSE Append(sorted, x)

RECURSIVE SortBy(_, _)
SortBy(Cmp(_, _), s) ==
    IF s = <<>> THEN <<>>
    ELSE InsertBy(Cmp, SortBy(Cmp, Front(s)), s[Len(s)])

(***************************************************************************)
(* image_loader.rs                                                         *)
(***************************************************************************)
Directory(p) == [kind |-> "Directory", path |-> p]
Image(p) == [kind |-> "Image", path |-> p]

\* the comparator of image_files.sort_by, and of two Image items
ImageCmp(a, b) ==
    IF modified(a) # NoTime /\ modified(b) # NoTime
    THEN IntCmp(modified(b), modified(a))
    ELSE PathCmp(a, b)

\* the comparator of items.sort_by
ItemCmpImagesFirst(a, b) ==
    IF a.kind = "Directory" /\ b.kind = "Image" THEN "Greater"
    ELSE IF a.kind = "Image" /\ b.kind = "Directory" THEN "Less"
    ELSE IF a.kind = "Directory" THEN PathCmp(a.path, b.path)
    ELSE ImageCmp(a.path, b.path)

ItemCmp(a, b) ==
    IF a.kind = "Directory" /\ b.kind = "Image" THEN "Less"
    ELSE IF a.kind = "Image" /\ b.kind = "Directory" THEN "Greater"
    ELSE IF a.kind = "Directory" THEN PathCmp(a.path, b.path)
    ELSE ImageCmp(a.path, b.path)

\* the entries refresh keeps, in the order the scan returned them
ScanItems(scan) ==
    LET kept == SelectSeq(scan, LAMBDA p : is_dir(p) \/ is_image_file(p))
    IN  [i \in 1..Len(kept) |->
            IF is_dir(kept[i]) THEN Directory(kept[i]) ELSE Image(kept[i])]

ScanImages(scan) == SelectSeq(scan, LAMBDA p : ~is_dir(p) /\ is_image_file(p))

\* a refresh that leaves the lists alone when read_dir returned nothing
refresh_keeps(l, scan) ==
    IF scan = <<>> THEN [l EXCEPT !.current_index = 0]
    ELSE [l EXCEPT !.items = SortBy(ItemCmp, ScanItems(scan)),
                   !.image_files = SortBy(ImageCmp, ScanImages(scan)),
                   !.current_index = 0]

\* ImageLoader::refresh; scan is the order in which read_dir returned the entries
refresh(l, scan) ==
    [l EXCEPT !.items = SortBy(ItemCmp, ScanItems(scan)),
              !.image_files = SortBy(ImageCmp, ScanImages(scan)),
              !.current_index = 0]

\* the orders read_dir may return the entries of the loader's folder in
Scans(folder) == Perms(read_dir(folder))

set_path_stale(l, new_path, scan) ==
    [l EXCEPT !.folder_path = canonicalize(new_path)]

\* ImageLoader::set_path
set_path(l, new_path, scan) ==
    refresh([l EXCEPT !.folder_path = canonicalize(new_path)], scan)

\* ImageLoader::get_current_path
get_current_path(l) ==
    IF l.image_files = <<>> THEN NoPath ELSE l.image_files[l.current_index + 1]

\* ImageLoader::next_image, the index it leaves
NextIndex(l) == (l.current_index + 1) % Len(l.image_files)

next_image_stuck(l) == l

next_image(l) ==
    IF l.image_files = <<>> THEN l ELSE [l EXCEPT !.current_index = NextIndex(l)]

\* ImageLoader::prev_image, the index it leaves
PrevIndexNoWrap(l) == IF l.current_index = 0 THEN 0 ELSE l.current_index - 1

PrevIndex(l) ==
    IF l.current_index = 0 THEN Len(l.image_files) - 1 ELSE l.current_index - 1

prev_image(l) ==
    IF l.image_files = <<>> THEN l ELSE [l EXCEPT !.current_index = PrevIndex(l)]

\* iter().position(|p| p == &target): the first match, 0-based; -1 for None
Position(s, x) ==
    IF \E i \in 1..Len(s) : s[i] = x
    THEN (CHOOSE i \in 1..Len(s) : s[i] = x /\ \A j \in 1..(i - 1) : s[j] # x) - 1
    ELSE -1

\* ImageLoader::open_image, the loader it leaves
OpenTarget(path) == canonicalize(path)

open_image(l, path) ==
    LET pos == Position(l.image_files, OpenTarget(path))
    IN  IF pos >= 0 THEN [l EXCEPT !.current_index = pos] ELSE l

\* whether open_image found the path (and so goes on to decode it)
open_image_found(l, path) == Position(l.image_files, OpenTarget(path)) >= 0

\* image::open(path): the outcomes of a decode
DecodeOutcomes(p) ==
    IF Resolve(p) \notin ImageFiles THEN {FALSE}
    ELSE IF Resolve(p) \in Flaky THEN {TRUE, FALSE}
    ELSE {TRUE}

\* the outcome of one decode of p: luck decides where both outcomes are possible
Decodes(p, luck) ==
    IF luck \in DecodeOutcomes(p) THEN luck ELSE TRUE \in DecodeOutcomes(p)

\* ImageLoader::new
NewLoader(folder, scan) ==
    refresh([folder_path |-> canonicalize(folder), items |-> <<>>,
             image_files |-> <<>>, current_index |-> 0], scan)

(***************************************************************************)
(* renderer.rs.  A Renderer is a record {window_size, image_size, pan,     *)
(* zoom, is_grid_item, grid_items, grid_scroll, is_nearest, diffuse}; the  *)
(* GPU objects are represented by what they were created from.  The cell   *)
(* size and the spacing are written out again at every place that lays the *)
(* grid out; each place keeps its own column formula here.                 *)
(***************************************************************************)
grid_size == 250
spacing == 20
ThumbSide == 256

Clamp(x, lo, hi) == IF x < lo THEN lo ELSE IF x > hi THEN hi ELSE x
Floor(a, b) == a \div b              \* (a / b).floor(), b > 0
Ceil(a, b) == -((-a) \div b)         \* (a / b).ceil(), b > 0
AsU32(x) == Max(0, x)                \* a float cast `as u32` saturates below at 0

RECURSIVE GCD(_, _)
GCD(a, b) == IF b = 0 THEN a ELSE GCD(b, a % b)
\* the fraction n/d in lowest terms, n >= 0, d > 0
Frac(n, d) == <<n \div GCD(n, d), d \div GCD(n, d)>>
FracLess(a, b) == a[1] * b[2] < b[1] * a[2]
FracMin(a, b) == IF FracLess(b, a) THEN b ELSE a
FracMax(a, b) == IF FracLess(a, b) THEN b ELSE a
FracClamp(x, lo, hi) == FracMin(FracMax(x, lo), hi)
One == <<1, 1>>

\* an image: its dimensions and the leading bytes of its pixel buffer
Img(w, h, px) == [width |-> w, height |-> h, pixels |-> px]
NoImage == Img(0, 0, <<>>)

\* RgbaImage::new(1, 1), the texture a grid cell starts with
Placeholder == Img(1, 1, <<0, 0, 0, 0>>)

\* Renderer::new
NewRenderer(width, height) ==
    [window_size |-> <<width, height>>, image_size |-> <<1, 1>>, pan |-> <<0, 0>>,
     zoom |-> One, is_grid_item |-> FALSE, grid_items |-> <<>>, grid_scroll |-> 0,
     is_nearest |-> FALSE, diffuse |-> [image |-> Placeholder, sampler |-> "linear"]]

\* Renderer::resize
resize(r, width, height) ==
    IF width = 0 \/ height = 0 THEN r
    ELSE [r EXCEPT !.window_size = <<width, height>>]

\* Renderer::update_texture
update_texture(r, img) ==
    [r EXCEPT !.image_size = <<img.width, img.height>>,
              !.pan = <<0, 0>>,
              !.diffuse = [image |-> img,
                           sampler |-> IF r.is_nearest THEN "nearest" ELSE "linear"]]

\* Renderer::set_filtering; img = NoImage stands for None
set_filtering(r, nearest, img) ==
    LET r1 == [r EXCEPT !.is_nearest = nearest]
    IN  IF img # NoImage THEN update_texture(r1, img) ELSE r1

\* Renderer::add_grid_item, always called with img = None
add_grid_item(r, path, is_directory) ==
    [r EXCEPT !.grid_items = Append(@, [path |-> path, is_directory |-> is_directory,
                                        texture |-> Placeholder,
                                        image_size |-> <<Placeholder.width,
                                                         Placeholder.height>>])]

\* Renderer::clear_grid
clear_grid(r) == [r EXCEPT !.grid_items = <<>>, !.grid_scroll = 0]

\* the scroll range as scroll_grid and scroll_to_item compute it
ScrollCols(r) == Max(1, Floor(r.window_size[1], grid_size + spacing))
ScrollRows(r) == Ceil(Len(r.grid_items), ScrollCols(r))
ContentHeight(r) == ScrollRows(r) * (grid_size + spacing) + spacing
MaxScroll(r) == Max(0, ContentHeight(r) - r.window_size[2])

\* Renderer::scroll_grid
scroll_grid(r, dy) ==
    [r EXCEPT !.grid_scroll = Clamp(r.grid_scroll + dy, -MaxScroll(r), 0)]

\* Renderer::zoom, its factor and limits
ZoomFactor == <<11, 10>>
ZoomMin == <<1, 10>>
ZoomMax == <<50, 1>>

zoom_unclamped(r, amount) ==
    IF r.is_grid_item THEN scroll_grid(r, amount * 100)
    ELSE LET z == IF amount > 0
                  THEN Frac(r.zoom[1] * ZoomFactor[1], r.zoom[2] * ZoomFactor[2])
                  ELSE Frac(r.zoom[1] * ZoomFactor[2], r.zoom[2] * ZoomFactor[1])
         IN  [r EXCEPT !.zoom = z]

\* Renderer::zoom
zoom(r, amount) ==
    IF r.is_grid_item THEN scroll_grid(r, amount * 100)
    ELSE LET z == IF amount > 0
                  THEN Frac(r.zoom[1] * ZoomFactor[1], r.zoom[2] * ZoomFactor[2])
                  ELSE Frac(r.zoom[1] * ZoomFactor[2], r.zoom[2] * ZoomFactor[1])
         IN  [r EXCEPT !.zoom = FracClamp(z, ZoomMin, ZoomMax)]

\* Renderer::pan
pan(r, dx, dy) ==
    IF r.is_grid_item THEN r
    ELSE [r EXCEPT !.pan = <<r.pan[1] + dx, r.pan[2] + dy>>]

\* Renderer::set_zoom
set_zoom(r, z) == [r EXCEPT !.zoom = z]

update_grid_item_texture_clamped(r, index, img) ==
    LET last == IF index < Len(r.grid_items) THEN index + 1 ELSE Len(r.grid_items)
    IN  IF r.grid_items # <<>>
        THEN [r EXCEPT !.grid_items[last].texture = img,
                       !.grid_items[last].image_size = <<img.width, img.height>>]
        ELSE r

\* Renderer::update_grid_item_texture
update_grid_item_texture(r, index, img) ==
    IF index < Len(r.grid_items)
    THEN [r EXCEPT !.grid_items[index + 1].texture = img,
                   !.grid_items[index + 1].image_size = <<img.width, img.height>>]
    ELSE r

\* a set_view_mode that leaves the flag as it is
set_view_mode_kept(r, is_grid) == r

\* Renderer::set_view_mode
set_view_mode(r, is_grid) == [r EXCEPT !.is_grid_item = is_grid]

\* Renderer::render, grid branch: where cell i (0-based) is drawn
RenderCols(r) == Max(1, Floor(r.window_size[1], grid_size + spacing))
RenderCol(r, i) == i % RenderCols(r)
RenderRow(r, i) == i \div RenderCols(r)
RenderX(r, i) == spacing + RenderCol(r, i) * (grid_size + spacing)
RenderY(r, i) == spacing + RenderRow(r, i) * (grid_size + spacing) + r.grid_scroll
\* ... and whether it is skipped as lying outside the viewport
Culled(r, i) == RenderY(r, i) + grid_size < 0 \/ RenderY(r, i) > r.window_size[2]
\* the cells one frame draws
DrawnCells(r) == {i \in 0..(Len(r.grid_items) - 1) : ~Culled(r, i)}

\* Renderer::scroll_to_item
ItemTop(r, index) == (index \div ScrollCols(r)) * (grid_size + spacing) + spacing
ItemBottom(r, index) == ItemTop(r, index) + grid_size
NudgeAboveOnly(r, index) ==
    IF ItemTop(r, index) < -r.grid_scroll THEN -ItemTop(r, index) + spacing
    ELSE r.grid_scroll

Nudge(r, index) ==
    IF ItemTop(r, index) < -r.grid_scroll THEN -ItemTop(r, index) + spacing
    ELSE IF ItemBottom(r, index) > -r.grid_scroll + r.window_size[2]
         THEN -ItemBottom(r, index) + r.window_size[2] - spacing
    ELSE r.grid_scroll
scroll_to_item(r, index) ==
    [r EXCEPT !.grid_scroll = Clamp(Nudge(r, index), -MaxScroll(r), 0)]

(***************************************************************************)
(* Images and their byte encodings.  The pixel buffer of an image is kept  *)
(* as its first pixel (R, G, B, A) followed by one number standing for the *)
(* rest of the buffer.                                                     *)
(***************************************************************************)
PathId(p) == IF Len(p) = 1 THEN p[1] ELSE 10 * p[1] + p[2]
\* the first byte of the PNG signature, which image::guess_format looks for
PngSignature == 137
PixelLen == 5
Resampled == 1000

\* the dimensions of the picture stored in each image file
ImgSize(p) ==
    CASE p = <<3>> -> <<2000, 1000>>
      [] p = <<4>> -> <<100, 80>>
      [] p = <<1, 1>> -> <<300, 900>>
      [] p = <<1, 2>> -> <<1280, 720>>
      [] p = <<1, 3>> -> <<640, 2000>>
      [] OTHER -> <<400, 400>>
\* the top-left pixel of its thumbnail; one starts like a PNG file
FirstPixel(p) == IF p = <<4>> THEN <<PngSignature, 80, 78, 71>> ELSE <<PathId(p), 0, 0, 255>>

\* image::open(path) on a file that decodes
Decoded(p) ==
    LET q == Resolve(p)
    IN  Img(ImgSize(q)[1], ImgSize(q)[2], FirstPixel(q) \o <<PathId(q)>>)

\* ImageLoader::load_current_image; NoImage for None
load_current_image(l, luck) ==
    IF l.image_files = <<>> THEN NoImage
    ELSE IF Decodes(get_current_path(l), luck) THEN Decoded(get_current_path(l))
    ELSE NoImage

\* img.resize_to_fill(256, 256, Triangle).to_rgba8()
\* (resampled: the rest of the buffer is not the source's)
resize_to_fill(img, w, h) ==
    Img(w, h, SubSeq(img.pixels, 1, 4) \o <<Resampled + img.pixels[PixelLen]>>)

\* the worker's directory thumbnail: background (30, 40, 60, 255), a square, and
\* the directory's name when the font could be read
FolderThumb(p, font) ==
    Img(ThumbSide, ThumbSide, <<30, 40, 60, 255, IF font THEN PathId(p) ELSE 0>>)

\* RgbaImage::to_vec: the raw pixel buffer, without the dimensions
to_vec(img) == img.pixels


\* image::load_from_memory(bytes).ok(): guesses the format from the signature and
\* decodes; NoImage for Err
load_from_memory(bytes) ==
    IF Len(bytes) = 3 + PixelLen /\ bytes[1] = PngSignature
    THEN Img(bytes[2], bytes[3], SubSeq(bytes, 4, Len(bytes)))
    ELSE NoImage

(***************************************************************************)
(* cache_manager.rs.  The sled database is a function from keys to stored  *)
(* values; a stored value records the struct it was serialized from.  `ok` *)
(* is whether the store's read, or its insert, succeeds.                   *)
(***************************************************************************)
WindowKey == <<0, 0, 0>>                       \* "window_settings"
Keys == Entries \cup {WindowKey}
Absent == [schema |-> "none"]
EmptyDb == [k \in Keys |-> Absent]
NoEntry == [mtime |-> 0, size |-> 0, thumbnail_data |-> <<>>, none |-> TRUE]
NoSettings == [x |-> 0, y |-> 0, width |-> 0, height |-> 0, none |-> TRUE]

\* one key for every path, the key of the window settings
get_key_shared(path) == WindowKey

\* CacheManager::get_key
get_key(path) == path

serialize(schema, value) == [schema |-> schema, value |-> value]

\* CacheManager::get
cache_get(d, path, ok) ==
    LET key == get_key(path)
    IN  IF ~ok \/ key \notin DOMAIN d \/ d[key] = Absent THEN NoEntry
        ELSE IF d[key].schema = "CacheEntry" THEN d[key].value
        ELSE NoEntry

\* a set that drops the stored value when the insert fails
cache_set_drops(d, path, entry, ok) ==
    LET key == get_key(path)
    IN  IF key \notin DOMAIN d THEN d
        ELSE IF ok THEN [d EXCEPT ![key] = serialize("CacheEntry", entry)]
        ELSE [d EXCEPT ![key] = Absent]

\* CacheManager::set, the database it leaves
cache_set(d, path, entry, ok) ==
    LET key == get_key(path)
    IN  IF ok /\ key \in DOMAIN d
        THEN [d EXCEPT ![key] = serialize("CacheEntry", entry)]
        ELSE d

\* CacheManager::get_thumbnail; NoImage for None
get_thumbnail(d, path, ok) ==
    LET entry == cache_get(d, path, ok)
    IN  IF entry = NoEntry THEN NoImage
        ELSE load_from_memory(entry.thumbnail_data)

\* CacheManager::set_thumbnail
set_thumbnail(d, path, img, ok) ==
    cache_set(d, path, [mtime |-> 0, size |-> 0, thumbnail_data |-> to_vec(img),
                        none |-> FALSE], ok)

\* CacheManager::get_window_settings
get_window_settings(d, ok) ==
    IF ~ok \/ d[WindowKey] = Absent THEN NoSettings
    ELSE IF d[WindowKey].schema = "WindowSettings" THEN d[WindowKey].value
    ELSE NoSettings

\* CacheManager::set_window_settings
set_window_settings(d, settings, ok) ==
    IF ok THEN [d EXCEPT ![WindowKey] = serialize("WindowSettings", settings)]
    ELSE d

(***************************************************************************)
(* main.rs, the controller.  An AppState is a record {image_loader,        *)
(* renderer, mode, selected_index, saved_zoom, is_actual_size, loader_tx,  *)
(* visible_indices_tx, cache, window}: loader_tx and visible_indices_tx    *)
(* are the contents of the two channels to the worker, cache the database, *)
(* window the position and inner size the window system reports.           *)
(***************************************************************************)
LoaderRequest(path, index, is_directory) ==
    [path |-> path, index |-> index, is_directory |-> is_directory]
LoaderResponse(index, image) == [index |-> index, image |-> image]

\* AppState::update_viewport, the index range it sends
ViewportCols(r) == Max(1, Floor(r.window_size[1], grid_size + spacing))
StartRow(r) == AsU32(Max(0, Floor(-r.grid_scroll - spacing, grid_size + spacing)))
EndRowNoMargin(r) ==
    AsU32(Ceil(-r.grid_scroll + r.window_size[2] - grid_size, grid_size + spacing))

EndRow(r) == AsU32(Ceil(-r.grid_scroll + r.window_size[2] + spacing, grid_size + spacing))
VisibleRange(r) == (StartRow(r) * ViewportCols(r))..(EndRow(r) * ViewportCols(r) - 1)

\* AppState::update_viewport
update_viewport(a) ==
    IF a.mode # "Grid" THEN a
    ELSE [a EXCEPT !.visible_indices_tx = Append(@, VisibleRange(a.renderer))]

\* AppState::set_zoom_to_fit, the zoom it sets
FitZoomNoCap(r) ==
    IF r.window_size[1] * r.image_size[2] > r.image_size[1] * r.window_size[2]
    THEN Frac(r.window_size[2], r.image_size[2])
    ELSE Frac(r.window_size[1], r.image_size[1])

FitZoom(r) ==
    IF r.image_size[1] <= 0 \/ r.image_size[2] <= 0 THEN One
    ELSE LET z == IF r.window_size[1] * r.image_size[2] > r.image_size[1] * r.window_size[2]
                  THEN Frac(r.window_size[2], r.image_size[2])
                  ELSE Frac(r.window_size[1], r.image_size[1])
         IN  FracMin(z, One)
set_zoom_to_fit(a) == [a EXCEPT !.renderer = set_zoom(@, FitZoom(@))]

\* the cells and the requests load_grid's loop builds from the items
RECURSIVE AddGridItems(_, _)
AddGridItems(r, items) ==
    IF items = <<>> THEN r
    ELSE AddGridItems(add_grid_item(r, Head(items).path, Head(items).kind = "Directory"),
                      Tail(items))
\* requests numbered from one
GridRequestsFromOne(items) ==
    [i \in 1..Len(items) |->
        LoaderRequest(items[i].path, i, items[i].kind = "Directory")]

GridRequests(items) ==
    [i \in 1..Len(items) |->
        LoaderRequest(items[i].path, i - 1, items[i].kind = "Directory")]

load_grid_keeps_selection(a) ==
    LET items == a.image_loader.items
    IN  update_viewport(
            [a EXCEPT !.renderer = AddGridItems(clear_grid(@), items),
                      !.loader_tx = Append(@, GridRequests(items))])

\* AppState::load_grid
load_grid(a) ==
    LET items == a.image_loader.items
    IN  update_viewport(
            [a EXCEPT !.selected_index = 0,
                      !.renderer = AddGridItems(clear_grid(@), items),
                      !.loader_tx = Append(@, GridRequests(items))])

\* the hit test of InputAction::Click in the grid view: the cell a click at
\* (x, y) selects, -1 if none
ClickColsWide(r) == Max(1, Ceil(r.window_size[1], grid_size + spacing))

ClickCols(r) == Max(1, Floor(r.window_size[1], grid_size + spacing))
ClickCol(x) == Floor(x - spacing, grid_size + spacing)
ClickRow(r, y) == Floor((y - r.grid_scroll) - spacing, grid_size + spacing)
ClickIndex(r, x, y) ==
    IF ClickCol(x) >= 0 /\ ClickCol(x) < ClickCols(r) /\ ClickRow(r, y) >= 0
    THEN ClickRow(r, y) * ClickCols(r) + ClickCol(x)
    ELSE -1

\* the drain at the top of handle_window_event
RECURSIVE ApplyResponses(_, _)
ApplyResponses(r, msgs) ==
    IF msgs = <<>> THEN r
    ELSE ApplyResponses(update_grid_item_texture(r, Head(msgs).index, Head(msgs).image),
                        Tail(msgs))

\* the outcomes of the system calls a handler makes: the decode, the order of
\* read_dir, outer_position, the write to the cache
Envs == [luck : BOOLEAN, reversed : BOOLEAN, pos_ok : BOOLEAN, write_ok : BOOLEAN]

\* one order in which fs::read_dir lists a directory: ascending by name, or
\* the reverse
Listing(folder, reversed) ==
    LET asc == SortBy(PathCmp, CHOOSE s \in Scans(folder) : TRUE)
    IN  IF reversed THEN [i \in 1..Len(asc) |-> asc[Len(asc) + 1 - i]] ELSE asc

open_image_internal_any(a, file_path, decodes) ==
    LET l == open_image(a.image_loader, file_path)
        a1 == [a EXCEPT !.image_loader = l]
    IN  [a1 EXCEPT !.renderer = set_view_mode(@, FALSE), !.mode = "Single"]

\* AppState::open_image_internal; decodes is whether image::open succeeds
open_image_internal(a, file_path, decodes) ==
    LET l == open_image(a.image_loader, file_path)
        pos == Position(l.items, Image(file_path))
        a1 == [a EXCEPT !.image_loader = l]
        a2 == [a1 EXCEPT !.selected_index = IF pos >= 0 THEN pos ELSE 0,
                         !.renderer = update_texture(@, Decoded(get_current_path(l)))]
    IN  IF open_image_found(a.image_loader, file_path) /\ decodes
        THEN [set_zoom_to_fit(a2) EXCEPT !.renderer = set_view_mode(@, FALSE),
                                         !.mode = "Single"]
        ELSE a1

open_path_keeps_mode(a, raw_path, env) ==
    LET path == canonicalize(raw_path)
        scan(folder) == Listing(canonicalize(folder), env.reversed)
    IN  IF is_file(path)
        THEN open_image_internal(
                 load_grid([a EXCEPT !.image_loader =
                                         set_path(@, Parent(path), scan(Parent(path)))]),
                 path, Decodes(path, env.luck))
        ELSE load_grid([a EXCEPT !.image_loader = set_path(@, path, scan(path))])

\* AppState::open_path (the calls on the window that follow change no state
\* kept here); env holds the outcomes of the system calls it makes
open_path(a, raw_path, env) ==
    LET path == canonicalize(raw_path)
        scan(folder) == Listing(canonicalize(folder), env.reversed)
    IN  IF is_file(path)
        THEN open_image_internal(
                 load_grid([a EXCEPT !.image_loader =
                                         set_path(@, Parent(path), scan(Parent(path)))]),
                 path, Decodes(path, env.luck))
        ELSE LET b == load_grid([a EXCEPT !.image_loader = set_path(@, path, scan(path))])
             IN  [b EXCEPT !.mode = "Grid", !.renderer = set_view_mode(@, TRUE)]

\* AppState::save_window_state
save_window_state(a, env) ==
    IF env.pos_ok
    THEN [a EXCEPT !.cache = set_window_settings(@, [x |-> a.window.x, y |-> a.window.y,
                                 width |-> a.window.width, height |-> a.window.height,
                                 none |-> FALSE], env.write_ok)]
    ELSE a

move_selection_unguarded(a, dx, dy) ==
    LET total_items == Len(a.image_loader.items)
        cols == Max(1, Floor(a.renderer.window_size[1], grid_size + spacing))
        index == a.selected_index + dx + dy * cols
    IN  IF total_items = 0 THEN a
        ELSE update_viewport([a EXCEPT !.selected_index = index,
                                       !.renderer = scroll_to_item(@, index)])

move_selection_clamped(a, dx, dy) ==
    LET total_items == Len(a.image_loader.items)
        cols == Max(1, Floor(a.renderer.window_size[1], grid_size + spacing))
        index == Clamp(a.selected_index + dx + dy * cols, 0, total_items - 1)
    IN  IF total_items = 0 THEN a
        ELSE update_viewport([a EXCEPT !.selected_index = index,
                                       !.renderer = scroll_to_item(@, index)])

\* AppState::move_selection
move_selection(a, dx, dy) ==
    LET total_items == Len(a.image_loader.items)
        cols == Max(1, Floor(a.renderer.window_size[1], grid_size + spacing))
        index == a.selected_index + dx + dy * cols
    IN  IF total_items = 0 THEN a
        ELSE IF index >= 0 /\ index < total_items
        THEN update_viewport([a EXCEPT !.selected_index = index,
                                       !.renderer = scroll_to_item(@, index)])
        ELSE a

move_selection_by_page_unclamped(a, dir) ==
    LET total_items == Len(a.image_loader.items)
        cols == Max(1, Floor(a.renderer.window_size[1], grid_size + spacing))
        rows_per_page == Max(1, Floor(a.renderer.window_size[2], grid_size + spacing))
        index == a.selected_index + dir * rows_per_page * cols
    IN  IF total_items = 0 THEN a
        ELSE IF index >= 0 /\ index < total_items
        THEN update_viewport([a EXCEPT !.selected_index = index,
                                       !.renderer = scroll_to_item(@, index)])
        ELSE a

\* AppState::move_selection_by_page
move_selection_by_page(a, dir) ==
    LET total_items == Len(a.image_loader.items)
        cols == Max(1, Floor(a.renderer.window_size[1], grid_size + spacing))
        rows_per_page == Max(1, Floor(a.renderer.window_size[2], grid_size + spacing))
        index == Clamp(a.selected_index + dir * rows_per_page * cols, 0, total_items - 1)
    IN  IF total_items = 0 THEN a
        ELSE IF a.selected_index # index
        THEN update_viewport([a EXCEPT !.selected_index = index,
                                       !.renderer = scroll_to_item(@, index)])
        ELSE a

\* AppState::handle_window_event, `match input_action`: e is the action the
\* input handler made of the event, env the outcomes of the system calls
input_action(a, e, env) ==
    LET l == a.image_loader
        decodes(p) == Decodes(p, env.luck)
        scan(folder) == Listing(canonicalize(folder), env.reversed)
        \* Single view, next/prev: l1 is the loader after next_image/prev_image
        step(l1, media) ==
            LET a1 == [a EXCEPT !.image_loader = l1]
                a2 == IF media
                      THEN [a1 EXCEPT !.is_actual_size = FALSE,
                                      !.renderer = set_filtering(@, FALSE, NoImage)]
                      ELSE a1
            IN  IF l1.image_files # <<>> /\ decodes(get_current_path(l1))
                THEN set_zoom_to_fit([a2 EXCEPT !.renderer =
                         update_texture(@, Decoded(get_current_path(l1)))])
                ELSE a1
        \* Grid view, Click and OpenSelected: the item at `index` is activated
        activate(a1, index) ==
            LET item == l.items[index + 1]
                l1 == open_image(l, item.path)
                a2 == [a1 EXCEPT !.image_loader = l1]
            IN  IF item.kind = "Directory"
                THEN load_grid([a1 EXCEPT !.image_loader =
                                              set_path(@, item.path, scan(item.path))])
                ELSE IF open_image_found(l, item.path) /\ decodes(get_current_path(l1))
                THEN [set_zoom_to_fit([a2 EXCEPT !.renderer =
                          update_texture(@, Decoded(get_current_path(l1)))])
                        EXCEPT !.renderer = set_view_mode(@, FALSE), !.mode = "Single"]
                ELSE a2
    IN  CASE e.kind = "NextImage" ->
               IF a.mode = "Single" THEN step(next_image(l), TRUE)
               ELSE move_selection(a, 1, 0)
          [] e.kind = "PrevImage" ->
               IF a.mode = "Single" THEN step(prev_image(l), TRUE)
               ELSE move_selection(a, -1, 0)
          [] e.kind = "Zoom" ->
               LET a1 == [a EXCEPT !.renderer = zoom(@, e.amount)]
               IN  IF a.mode = "Grid" THEN update_viewport(a1) ELSE a1
          [] e.kind = "Pan" -> [a EXCEPT !.renderer = pan(@, e.dx, e.dy)]
          [] e.kind = "Click" ->
               LET index == ClickIndex(a.renderer, e.x, e.y)
               IN  IF a.mode = "Grid" /\ index >= 0 /\ index < Len(l.items)
                   THEN activate([a EXCEPT !.selected_index = index], index)
                   ELSE a
          [] e.kind = "Back" ->
               IF a.mode = "Single"
               THEN [a EXCEPT !.is_actual_size = FALSE,
                              !.mode = "Grid",
                              !.renderer = set_view_mode(set_filtering(@, FALSE, NoImage),
                                                         TRUE)]
               ELSE IF l.folder_path # <<>>
               THEN load_grid([a EXCEPT !.image_loader =
                        set_path(@, Parent(l.folder_path), scan(Parent(l.folder_path)))])
               ELSE a
          [] e.kind = "ActualSize" ->
               IF a.mode # "Single" THEN a
               ELSE LET a1 == IF ~a.is_actual_size
                              THEN [a EXCEPT !.saved_zoom = a.renderer.zoom,
                                             !.is_actual_size = TRUE,
                                             !.renderer = set_zoom(@, One)]
                              ELSE [a EXCEPT !.is_actual_size = FALSE,
                                             !.renderer = set_zoom(@, a.saved_zoom)]
                    IN  IF l.image_files # <<>> /\ decodes(get_current_path(l))
                        THEN [a1 EXCEPT !.renderer =
                                 set_filtering(@, a1.is_actual_size,
                                               Decoded(get_current_path(l)))]
                        ELSE a1
          [] e.kind = "SelectUp" -> IF a.mode = "Grid" THEN move_selection(a, 0, -1) ELSE a
          [] e.kind = "SelectDown" -> IF a.mode = "Grid" THEN move_selection(a, 0, 1) ELSE a
          [] e.kind = "SelectLeft" ->
               IF a.mode = "Grid" THEN move_selection(a, -1, 0)
               ELSE step(prev_image(l), FALSE)
          [] e.kind = "SelectRight" ->
               IF a.mode = "Grid" THEN move_selection(a, 1, 0)
               ELSE step(next_image(l), FALSE)
          [] e.kind = "OpenSelected" ->
               IF a.mode = "Grid" /\ a.selected_index < Len(l.items)
               THEN activate(a, a.selected_index)
               ELSE a
          [] e.kind = "PageUp" ->
               IF a.mode = "Grid" THEN move_selection_by_page(a, -1) ELSE a
          [] e.kind = "PageDown" ->
               IF a.mode = "Grid" THEN move_selection_by_page(a, 1) ELSE a
          [] OTHER -> a

\* AppState::handle_window_event: the responses waiting are applied, the input
\* action handled, then the window event itself (RedrawRequested draws and
\* changes no state kept here)
handle_window_event(a, msgs, e, env) ==
    LET a1 == input_action([a EXCEPT !.renderer = ApplyResponses(@, msgs)], e, env)
    IN  CASE e.kind = "Resized" ->
               update_viewport(save_window_state(
                   [a1 EXCEPT !.renderer = resize(@, e.width, e.height)], env))
          [] e.kind = "Moved" -> save_window_state(a1, env)
          [] OTHER -> a1

(***************************************************************************)
(* main.rs, the thumbnail thread spawned by AppState::new.  worker.pc is   *)
(* its place in the loop: "requests" before the first try_recv loop,       *)
(* "visible" before the second, "pick" at the is_empty test, "serve" once  *)
(* a request has been removed from the list.  visible_indices is kept as a *)
(* set: the loop only asks it contains().                                  *)
(***************************************************************************)
NoRequest == LoaderRequest(NoPath, 0, FALSE)
SpawnedWorker ==
    [pc |-> "requests", pending_requests |-> <<>>, visible_indices |-> {},
     font |-> FALSE, request |-> NoRequest]

RECURSIVE Concat(_)
Concat(batches) == IF batches = <<>> THEN <<>> ELSE Head(batches) \o Concat(Tail(batches))

\* the comparator of the worker's sort_by
RequestCmpByIndex(visible, a, b) == IntCmp(a.index, b.index)

RequestCmp(visible, a, b) ==
    IF a.index \in visible /\ b.index \notin visible THEN "Less"
    ELSE IF a.index \notin visible /\ b.index \in visible THEN "Greater"
    ELSE IntCmp(a.index, b.index)

LatestVisibleFirst(visible_indices, hints) ==
    IF hints = <<>> THEN visible_indices ELSE hints[1]

\* while let Ok(visible) = visible_indices_rx.try_recv() { visible_indices = visible; }
\* hints are the messages waiting, oldest first
LatestVisible(visible_indices, hints) ==
    IF hints = <<>> THEN visible_indices ELSE hints[Len(hints)]

PrioritizedMerged(pending, visible) ==
    LET sorted == SortBy(LAMBDA a, b : RequestCmp(visible, a, b), pending)
        kept[n \in 0..Len(sorted)] ==
            IF n = 0 THEN <<>>
            ELSE IF \E j \in 1..(n - 1) : sorted[j].index = sorted[n].index
            THEN kept[n - 1]
            ELSE Append(kept[n - 1], sorted[n])
    IN  kept[Len(sorted)]

\* pending_requests.sort_by(..)
Prioritized(pending, visible) ==
    SortBy(LAMBDA a, b : RequestCmp(visible, a, b), pending)

ThumbnailNeedsFont(request, font, hit, decodes) ==
    IF request.is_directory THEN (IF font THEN FolderThumb(request.path, font) ELSE NoImage)
    ELSE IF hit # NoImage THEN hit
    ELSE IF decodes THEN resize_to_fill(Decoded(request.path), ThumbSide, ThumbSide)
    ELSE NoImage

\* the thumbnail of a request, NoImage if there is none; hit is whether
\* get_thumbnail returned one, decodes whether image::open succeeds
Thumbnail(request, font, hit, decodes) ==
    IF request.is_directory THEN FolderThumb(request.path, font)
    ELSE IF hit # NoImage THEN hit
    ELSE IF decodes THEN resize_to_fill(Decoded(request.path), ThumbSide, ThumbSide)
    ELSE NoImage

DefaultWindow == [x |-> 0, y |-> 0, width |-> 1280, height |-> 720]
ClickXs == {10, 269, 290, 560}
ClickYs == {10, 200, 290, 560}
ZoomAmounts == {-1, 1}
\* no file at the IPC name
NoSocket == [file |-> FALSE, owner |-> 0]
\* one process is the running instance and its listener is bound
OnlyInstance ==
    /\ socket = [file |-> TRUE, owner |-> 1]
    /\ instance = [p \in {1} |-> [pc |-> "listening", arg |-> <<0>>, peer |-> 0,
                                  conns |-> <<>>, events |-> <<>>, met_running |-> FALSE]]
\* the times where they do not vary
FixedTimes == mtime = [p \in ImageFiles |-> IF p \in {<<4>>, <<1, 3>>} THEN 2 ELSE 1]
App == [image_loader |-> image_loader, renderer |-> renderer, mode |-> mode,
        selected_index |-> selected_index, saved_zoom |-> saved_zoom,
        is_actual_size |-> is_actual_size, loader_tx |-> loader_ch,
        visible_indices_tx |-> visible_ch, cache |-> cache, window |-> window]

(***************************************************************************)
(* The renderer and the grid layout on their own: the operations that      *)
(* read or move the grid (load, resize, wheel scroll, scroll_to_item,      *)
(* render, update_viewport, the click hit test), called in any order on    *)
(* every window size.                                                      *)
(***************************************************************************)
LayoutWidths == {539, 540, 1280}
LayoutHeights == {100, 260, 270, 720}
LayoutItems(n) == [i \in 1..n |-> Image(<<1, i>>)]
LayoutApp == [App EXCEPT !.image_loader.items = LayoutItems(Len(renderer.grid_items)),
                         !.visible_indices_tx = <<>>]

restOfLayout == <<mtime, socket, instance, window, image_loader, mode, selected_index, saved_zoom,
                  is_actual_size, cache, loader_ch, visible_ch, response_ch,
                  worker>>

LayInit ==
    /\ FixedTimes /\ OnlyInstance
    /\ window = DefaultWindow
    /\ image_loader = NewLoader(<<8>>, <<>>)
    /\ renderer = set_view_mode(NewRenderer(DefaultWindow.width, DefaultWindow.height), TRUE)
    /\ mode = "Grid" /\ selected_index = 0 /\ saved_zoom = One
    /\ is_actual_size = FALSE /\ cache = EmptyDb
    /\ loader_ch = <<>> /\ visible_ch = <<>> /\ response_ch = <<>>
    /\ worker = SpawnedWorker
    /\ ev = [kind |-> "new"]

\* AppState::load_grid for a catalog of n items: the cells it rebuilds (the
\* batch and the hint it sends are taken by the worker)
LayLoadGrid ==
    /\ \E n \in 0..MaxCells :
          renderer' = load_grid([App EXCEPT !.image_loader.items = LayoutItems(n)]).renderer
    /\ ev' = [kind |-> "load_grid"]
    /\ UNCHANGED restOfLayout

LayResize ==
    /\ \E w \in LayoutWidths \cup {0}, h \in LayoutHeights :
          renderer' = resize(renderer, w, h)
    /\ ev' = [kind |-> "resize"]
    /\ UNCHANGED restOfLayout

\* the mouse wheel over the grid: Renderer::zoom with is_grid_item set
LayWheel ==
    /\ \E amount \in ZoomAmounts :
          renderer' = zoom(renderer, amount)
    /\ ev' = [kind |-> "wheel"]
    /\ UNCHANGED restOfLayout

LayScrollToItem ==
    /\ \E i \in 0..(Len(renderer.grid_items) - 1) :
          /\ renderer' = scroll_to_item(renderer, i)
          /\ ev' = [kind |-> "scroll_to_item", index |-> i]
    /\ UNCHANGED restOfLayout

\* Renderer::render in the grid view; ev keeps the cells it drew
LayRender ==
    /\ ev' = [kind |-> "render", drawn |-> DrawnCells(renderer)]
    /\ UNCHANGED <<restOfLayout, renderer>>

\* AppState::update_viewport; ev keeps the hint it sent to the worker
LayUpdateViewport ==
    /\ ev' = [kind |-> "update_viewport",
              sent |-> update_viewport(LayoutApp).visible_indices_tx]
    /\ UNCHANGED <<restOfLayout, renderer>>

\* the hit test of the Click handler
LayClick ==
    /\ \E x \in ClickXs, y \in ClickYs :
          ev' = [kind |-> "click", x |-> x, y |-> y, hit |-> ClickIndex(renderer, x, y)]
    /\ UNCHANGED <<restOfLayout, renderer>>

LayNext ==
    \/ LayLoadGrid \/ LayResize \/ LayWheel \/ LayScrollToItem \/ LayRender
    \/ LayUpdateViewport \/ LayClick

SpecRenderer == LayInit /\ [][LayNext]_vars

(***************************************************************************)
(* The zoom of the single view on its own: every image shown and fitted   *)
(* in every window size, the window resized under a shown image (resize    *)
(* does not fit again), zoom input steps and the actual-size toggle.  The  *)
(* zoom at the start is 1.0 or a limit that earlier zoom input reached.    *)
(***************************************************************************)
StartZooms == {One, ZoomMin, ZoomMax}
FitInit ==
    /\ FixedTimes /\ OnlyInstance
    /\ window = DefaultWindow
    /\ image_loader = NewLoader(<<8>>, <<>>)
    /\ \E w \in LayoutWidths, h \in LayoutHeights, z \in StartZooms :
          renderer = set_zoom(NewRenderer(w, h), z)
    /\ mode = "Single" /\ selected_index = 0 /\ saved_zoom = One
    /\ is_actual_size = FALSE /\ cache = EmptyDb
    /\ loader_ch = <<>> /\ visible_ch = <<>> /\ response_ch = <<>>
    /\ worker = SpawnedWorker
    /\ ev = [kind |-> "new"]

\* update_texture followed by set_zoom_to_fit, as every handler that shows an
\* image does
FitShow ==
    /\ \E p \in ImageFiles :
          renderer' = set_zoom_to_fit([App EXCEPT
                          !.renderer = update_texture(@, Decoded(p))]).renderer
    /\ ev' = [kind |-> "fit"]
    /\ UNCHANGED restOfLayout

FitResize ==
    /\ \E w \in LayoutWidths \cup {0}, h \in LayoutHeights :
          renderer' = resize(renderer, w, h)
    /\ ev' = [kind |-> "resize"]
    /\ UNCHANGED restOfLayout

\* InputAction::Zoom in the single view; the steps stop when a term of the
\* fraction would pass MaxZoomTerm
FitZoomStep ==
    /\ renderer.zoom[1] * ZoomFactor[1] <= MaxZoomTerm
    /\ renderer.zoom[2] * ZoomFactor[1] <= MaxZoomTerm
    /\ \E amount \in {-1, 1}, env \in {v \in Envs : v.luck /\ v.reversed /\ v.pos_ok /\ v.write_ok} :
          /\ renderer' = input_action(App, [kind |-> "Zoom", amount |-> amount], env).renderer
          /\ ev' = [kind |-> "zoom", amount |-> amount]
    /\ UNCHANGED restOfLayout

\* InputAction::ActualSize
FitActualSize ==
    /\ \E env \in {v \in Envs : v.luck /\ v.reversed /\ v.pos_ok /\ v.write_ok} :
          LET a == input_action(App, [kind |-> "ActualSize"], env)
          IN  /\ renderer' = a.renderer
              /\ saved_zoom' = a.saved_zoom
              /\ is_actual_size' = a.is_actual_size
    /\ ev' = [kind |-> "actual_size"]
    /\ UNCHANGED <<mtime, socket, instance, window, image_loader, mode, selected_index, cache, loader_ch,
                   visible_ch, response_ch, worker>>

FitNext == FitShow \/ FitResize \/ FitZoomStep \/ FitActualSize

SpecFit == FitInit /\ [][FitNext]_vars

(***************************************************************************)
(* The thumbnail thread on its own, with the foreground reduced to what it *)
(* sends and receives: load_grid's request batches, update_viewport's      *)
(* hints, the drain of the responses.  ev.outstanding counts the requests   *)
(* sent less the requests served; ev.hint is the last hint sent.           *)
(***************************************************************************)
WorkerFolders == {Root}
\* window width, window height and grid scroll of the views whose hints are sent
HintViews == {<<1280, 720, 0>>, <<539, 260, -300>>}
HintOf(view) ==
    VisibleRange([NewRenderer(view[1], view[2]) EXCEPT !.grid_scroll = view[3]])
Queued == Len(Concat(loader_ch)) + Len(worker.pending_requests)

restOfWorker == <<mtime, socket, instance, window, image_loader, mode, selected_index, saved_zoom,
                  is_actual_size>>

\* the database once save_window_state has stored the window's geometry
SavedWindowDb ==
    set_window_settings(EmptyDb, [x |-> DefaultWindow.x, y |-> DefaultWindow.y,
                                  width |-> DefaultWindow.width,
                                  height |-> DefaultWindow.height, none |-> FALSE], TRUE)

\* an encoded image file of the thumbnail of p: signature, dimensions, pixels
EncodedThumb(p) ==
    <<PngSignature, ThumbSide, ThumbSide>>
        \o to_vec(resize_to_fill(Decoded(p), ThumbSide, ThumbSide))

\* the database file as found at the start: the window settings, and under one
\* path an entry whose bytes are an encoded image, which get_thumbnail decodes
EarlierDb ==
    cache_set(SavedWindowDb, <<4>>,
              [mtime |-> 0, size |-> 0, thumbnail_data |-> EncodedThumb(<<4>>),
               none |-> FALSE], TRUE)

WkInit ==
    /\ FixedTimes /\ OnlyInstance
    /\ window = DefaultWindow
    /\ image_loader = NewLoader(<<8>>, <<>>)
    /\ renderer = set_view_mode(NewRenderer(DefaultWindow.width, DefaultWindow.height), TRUE)
    /\ mode = "Grid" /\ selected_index = 0 /\ saved_zoom = One
    /\ is_actual_size = FALSE /\ cache = EarlierDb
    /\ loader_ch = <<>> /\ visible_ch = <<>> /\ response_ch = <<>>
    /\ worker = SpawnedWorker
    /\ ev = [kind |-> "new", outstanding |-> 0, hint |-> {}]

\* the foreground's load_grid, for the catalog of some folder: its batch
\* (the two listing orders give every batch a scan order of the folder gives)
WkLoadGrid ==
    /\ Len(loader_ch) < MaxInFlight
    /\ \E folder \in WorkerFolders :
          /\ Queued + Cardinality(read_dir(folder)) <= MaxPending
          /\ \E reversed \in BOOLEAN :
                 LET batch == GridRequests(NewLoader(folder, Listing(folder, reversed)).items)
                 IN  /\ loader_ch' = Append(loader_ch, batch)
                     /\ ev' = [kind |-> "load_grid", hint |-> ev.hint,
                               outstanding |-> ev.outstanding + Len(batch)]
    /\ UNCHANGED <<restOfWorker, renderer, cache, visible_ch, response_ch, worker>>

\* the foreground's update_viewport, for some view: its hint
WkUpdateViewport ==
    /\ Len(visible_ch) < MaxInFlight
    /\ \E view \in HintViews :
          /\ visible_ch' = Append(visible_ch, HintOf(view))
          /\ ev' = [kind |-> "update_viewport", outstanding |-> ev.outstanding,
                    hint |-> HintOf(view)]
    /\ UNCHANGED <<restOfWorker, renderer, cache, loader_ch, response_ch, worker>>

\* the drain at the top of handle_window_event
WkDrain ==
    /\ response_ch # <<>>
    /\ renderer' = ApplyResponses(renderer, response_ch)
    /\ response_ch' = <<>>
    /\ ev' = [kind |-> "drain", outstanding |-> ev.outstanding, hint |-> ev.hint,
              indices |-> [i \in 1..Len(response_ch) |-> response_ch[i].index]]
    /\ UNCHANGED <<restOfWorker, cache, loader_ch, visible_ch, worker>>

\* while let Ok(requests) = loader_rx.try_recv()
WkRecvRequests ==
    /\ worker.pc = "requests"
    /\ worker' = [worker EXCEPT !.pending_requests = @ \o Concat(loader_ch),
                                !.pc = "visible"]
    /\ loader_ch' = <<>>
    /\ ev' = [kind |-> "recv_requests", outstanding |-> ev.outstanding, hint |-> ev.hint]
    /\ UNCHANGED <<restOfWorker, renderer, cache, visible_ch, response_ch>>

\* while let Ok(visible) = visible_indices_rx.try_recv()
WkRecvVisible ==
    /\ worker.pc = "visible"
    /\ worker' = [worker EXCEPT !.visible_indices = LatestVisible(@, visible_ch),
                                !.pc = "pick"]
    /\ visible_ch' = <<>>
    /\ ev' = [kind |-> "recv_visible", outstanding |-> ev.outstanding, hint |-> ev.hint,
              drained |-> visible_ch]
    /\ UNCHANGED <<restOfWorker, renderer, cache, loader_ch, response_ch>>

\* nothing pending: sleep and start over
WkSleep ==
    /\ worker.pc = "pick" /\ worker.pending_requests = <<>>
    /\ worker' = [worker EXCEPT !.pc = "requests"]
    /\ ev' = [kind |-> "sleep", outstanding |-> ev.outstanding, hint |-> ev.hint]
    /\ UNCHANGED <<restOfWorker, renderer, cache, loader_ch, visible_ch, response_ch>>

\* a pop that takes the head only if it is visible, and else goes round again
WkPopVisibleOnly ==
    /\ worker.pc = "pick" /\ worker.pending_requests # <<>>
    /\ \E font_read \in BOOLEAN :
          LET sorted == Prioritized(worker.pending_requests, worker.visible_indices)
          IN  worker' = IF Head(sorted).index \in worker.visible_indices
                        THEN [worker EXCEPT !.font = @ \/ font_read,
                                            !.pending_requests = Tail(sorted),
                                            !.request = Head(sorted),
                                            !.pc = "serve"]
                        ELSE [worker EXCEPT !.font = @ \/ font_read,
                                            !.pending_requests = sorted,
                                            !.pc = "requests"]
    /\ ev' = [kind |-> "pop", outstanding |-> ev.outstanding, hint |-> ev.hint]
    /\ UNCHANGED <<restOfWorker, renderer, cache, loader_ch, visible_ch, response_ch>>

\* the font is read if it has not been, the list sorted, its head removed
WkPop ==
    /\ worker.pc = "pick" /\ worker.pending_requests # <<>>
    /\ \E font_read \in BOOLEAN :
          LET sorted == Prioritized(worker.pending_requests, worker.visible_indices)
          IN  worker' = [worker EXCEPT !.font = @ \/ font_read,
                                       !.pending_requests = Tail(sorted),
                                       !.request = Head(sorted),
                                       !.pc = "serve"]
    /\ ev' = [kind |-> "pop", outstanding |-> ev.outstanding, hint |-> ev.hint]
    /\ UNCHANGED <<restOfWorker, renderer, cache, loader_ch, visible_ch, response_ch>>

\* the thumbnail of the removed request is made, or fetched from the cache,
\* or made and stored, and sent; at most `limit` responses wait undrained
WkServeWithin(limit) ==
    /\ worker.pc = "serve"
    /\ Len(response_ch) < limit
    /\ LET request == worker.request
       IN  \E read_ok, write_ok \in BOOLEAN :
           \E decodes \in IF request.is_directory THEN {FALSE}
                          ELSE DecodeOutcomes(request.path) :
              LET hit == IF request.is_directory THEN NoImage
                         ELSE get_thumbnail(cache, request.path, read_ok)
                  thumb == Thumbnail(request, worker.font, hit, decodes)
                  stores == ~request.is_directory /\ hit = NoImage /\ decodes
              IN  /\ cache' = IF stores
                              THEN set_thumbnail(cache, request.path, thumb, write_ok)
                              ELSE cache
                  /\ response_ch' = IF thumb # NoImage
                                    THEN Append(response_ch,
                                                LoaderResponse(request.index, thumb))
                                    ELSE response_ch
                  /\ ev' = [kind |-> "serve", request |-> request,
                            entry |-> IF request.is_directory THEN NoEntry
                                      ELSE cache_get(cache, request.path, read_ok),
                            hit |-> hit # NoImage, decoded |-> decodes,
                            image |-> thumb, outstanding |-> ev.outstanding - 1,
                            hint |-> ev.hint]
    /\ worker' = [worker EXCEPT !.pc = "requests"]
    /\ UNCHANGED <<restOfWorker, renderer, loader_ch, visible_ch>>

WkServe == WkServeWithin(MaxResponses)

WkNext ==
    \/ WkLoadGrid \/ WkUpdateViewport \/ WkDrain \/ WkRecvRequests
    \/ WkRecvVisible \/ WkSleep \/ WkPop \/ WkServe

SpecWorker == WkInit /\ [][WkNext]_vars

(***************************************************************************)
(* The worker and the hints of one grid: the root's batch is on its way    *)
(* and the foreground sends hints faster than the worker takes them.       *)
(***************************************************************************)
\* AppState::new has run load_grid on the root; no hint has been sent yet
HintsInit ==
    /\ FixedTimes /\ OnlyInstance
    /\ window = DefaultWindow
    /\ image_loader = NewLoader(<<8>>, <<>>)
    /\ renderer = set_view_mode(NewRenderer(DefaultWindow.width, DefaultWindow.height), TRUE)
    /\ mode = "Grid" /\ selected_index = 0 /\ saved_zoom = One
    /\ is_actual_size = FALSE /\ cache = EmptyDb
    /\ \E reversed \in BOOLEAN :
          loader_ch = <<GridRequests(NewLoader(Root, Listing(Root, reversed)).items)>>
    /\ visible_ch = <<>> /\ response_ch = <<>>
    /\ worker = SpawnedWorker
    /\ ev = [kind |-> "new", outstanding |-> Len(loader_ch[1]), hint |-> {}]

\* the foreground's update_viewport while earlier hints still wait
WkUpdateViewportAgain ==
    /\ Len(visible_ch) < MaxHints
    /\ \E view \in HintViews :
          /\ visible_ch' = Append(visible_ch, HintOf(view))
          /\ ev' = [kind |-> "update_viewport", outstanding |-> ev.outstanding,
                    hint |-> HintOf(view)]
    /\ UNCHANGED <<restOfWorker, renderer, cache, loader_ch, response_ch, worker>>

HintsNext ==
    \/ WkUpdateViewportAgain \/ WkDrain \/ WkRecvRequests
    \/ WkRecvVisible \/ WkSleep \/ WkPop \/ WkServe

SpecHints == HintsInit /\ [][HintsNext]_vars

(***************************************************************************)
(* The catalog on its own: every operation of ImageLoader, driven with     *)
(* every path of the file system, every scan order and every mtime.        *)
(***************************************************************************)
\* paths handed to set_path and open_image: entries, spellings with ".", and
\* a path that does not exist
InputPaths == Entries \cup {Root, <<0>>, <<1, 0>>, <<0, 3>>, <<8>>}
FolderInputs == Dirs \cup {Root, <<1, 0>>, <<3>>, <<8>>}

TimesInit == mtime \in {f \in [ImageFiles -> 1..MaxTime] :
                            \A p \in ImageFiles \ VariedTimes : f[p] = 1}

\* the variables the catalog does not touch
restOfCatalog == <<window, renderer, mode, selected_index, saved_zoom, is_actual_size,
                   cache, loader_ch, visible_ch, response_ch, worker>>

CatInit ==
    /\ TimesInit /\ OnlyInstance
    /\ \E scan \in Scans(Root) : image_loader = NewLoader(<<0>>, scan)
    /\ ev = [kind |-> "new"]
    /\ window = DefaultWindow
    /\ renderer = NewRenderer(DefaultWindow.width, DefaultWindow.height)
    /\ mode = "Grid" /\ selected_index = 0 /\ saved_zoom = One
    /\ is_actual_size = FALSE /\ cache = EmptyDb
    /\ loader_ch = <<>> /\ visible_ch = <<>> /\ response_ch = <<>>
    /\ worker = SpawnedWorker

CatRefresh ==
    /\ \E scan \in Scans(image_loader.folder_path) :
          /\ image_loader' = refresh(image_loader, scan)
          /\ ev' = [kind |-> "refresh",
                    reordered |-> ScanItems(scan) # refresh(image_loader, scan).items]
    /\ UNCHANGED <<mtime, socket, instance, restOfCatalog>>

CatSetPath ==
    /\ \E p \in FolderInputs : \E scan \in Scans(canonicalize(p)) :
          /\ image_loader' = set_path(image_loader, p, scan)
          /\ ev' = [kind |-> "set_path",
                    reordered |-> ScanItems(scan) # set_path(image_loader, p, scan).items]
    /\ UNCHANGED <<mtime, socket, instance, restOfCatalog>>

\* the image next_image, prev_image and open_image return once they have left
\* the loader l: None on their early return, else what load_current_image gives
Returned(l, early, luck) == IF early THEN NoImage ELSE load_current_image(l, luck)

CatNextImage ==
    /\ \E luck \in BOOLEAN :
          /\ image_loader' = next_image(image_loader)
          /\ ev' = [kind |-> "next_image", from |-> image_loader.current_index,
                    returned |-> Returned(next_image(image_loader),
                                          image_loader.image_files = <<>>, luck)]
    /\ UNCHANGED <<mtime, socket, instance, restOfCatalog>>

CatPrevImage ==
    /\ \E luck \in BOOLEAN :
          /\ image_loader' = prev_image(image_loader)
          /\ ev' = [kind |-> "prev_image", from |-> image_loader.current_index,
                    returned |-> Returned(prev_image(image_loader),
                                          image_loader.image_files = <<>>, luck)]
    /\ UNCHANGED <<mtime, socket, instance, restOfCatalog>>

CatOpenImage ==
    /\ \E p \in InputPaths, luck \in BOOLEAN :
          /\ image_loader' = open_image(image_loader, p)
          /\ ev' = [kind |-> "open_image", path |-> p,
                    listed |-> p \in Range(image_loader.image_files),
                    returned |-> Returned(open_image(image_loader, p),
                                          ~open_image_found(image_loader, p), luck)]
    /\ UNCHANGED <<mtime, socket, instance, restOfCatalog>>

CatLoadCurrentImage ==
    /\ \E luck \in BOOLEAN :
          ev' = [kind |-> "load_current_image",
                 returned |-> load_current_image(image_loader, luck)]
    /\ UNCHANGED <<mtime, socket, instance, image_loader, restOfCatalog>>

CatNext ==
    \/ CatRefresh \/ CatSetPath \/ CatNextImage \/ CatPrevImage \/ CatOpenImage
    \/ CatLoadCurrentImage

SpecCatalog == CatInit /\ [][CatNext]_vars

(***************************************************************************)
(* The controller on its own: resumed() builds the state, then window      *)
(* events and OpenPath user events are handled one at a time.  The worker  *)
(* has taken everything sent before an event begins, so after an event the *)
(* two channels hold what that event sent; no response is waiting.         *)
(***************************************************************************)
StartPaths == {<<0>>, <<1>>, <<0, 3>>, <<4>>}
OpenPaths == {Root, <<2>>, <<4>>, <<1, 2>>, <<1, 4>>, <<8>>}
WindowSizes == {<<1280, 720>>, <<600, 300>>, <<0, 0>>}
ClickPoints == {<<10, 10>>, <<30, 30>>, <<300, 30>>, <<30, 300>>}
NoItem == [kind |-> "None", path |-> NoPath]

\* resumed() and AppState::new: the window takes the default size, the
\* catalog of the argument is scanned, the grid loaded, a file argument opened
Started(start, env) ==
    LET input_path == canonicalize(start)
        loader_path == IF is_file(input_path) THEN Parent(input_path) ELSE input_path
        a == load_grid(
                 [image_loader |-> NewLoader(loader_path,
                                      Listing(canonicalize(loader_path), env.reversed)),
                  renderer |-> set_view_mode(NewRenderer(DefaultWindow.width,
                                                         DefaultWindow.height), TRUE),
                  mode |-> "Grid", selected_index |-> 0, saved_zoom |-> One,
                  is_actual_size |-> FALSE, loader_tx |-> <<>>,
                  visible_indices_tx |-> <<>>, cache |-> EmptyDb,
                  window |-> DefaultWindow])
    IN  IF is_file(input_path)
        THEN open_image_internal(a, input_path, Decodes(input_path, env.luck))
        ELSE a

\* the state the next handler starts from
Idle == [App EXCEPT !.loader_tx = <<>>, !.visible_indices_tx = <<>>]

\* the item a Click or an OpenSelected activates in the grid view
Activated(e) ==
    LET index == IF e.kind = "Click" THEN ClickIndex(renderer, e.x, e.y)
                 ELSE selected_index
    IN  IF mode = "Grid" /\ e.kind \in {"Click", "OpenSelected"}
           /\ index >= 0 /\ index < Len(image_loader.items)
        THEN image_loader.items[index + 1]
        ELSE NoItem

\* the last hint sent so far
LastHint(a) ==
    IF a.visible_indices_tx = <<>> THEN ev.hint
    ELSE a.visible_indices_tx[Len(a.visible_indices_tx)]

\* the handler left state a; target is the item or path it was asked to open,
\* luck the outcome of the decode if it came to one, n the events handled so far
Handled(a, kind, target, luck) ==
    /\ ev.n < MaxEvents
    /\ image_loader' = a.image_loader
    /\ renderer' = a.renderer
    /\ mode' = a.mode
    /\ selected_index' = a.selected_index
    /\ saved_zoom' = a.saved_zoom
    /\ is_actual_size' = a.is_actual_size
    /\ loader_ch' = a.loader_tx
    /\ visible_ch' = a.visible_indices_tx
    /\ cache' = a.cache
    /\ window' = a.window
    /\ ev' = [kind |-> kind, target |-> target,
              luck |-> luck /\ target # NoItem, hint |-> LastHint(a), n |-> ev.n + 1]
    /\ UNCHANGED <<mtime, socket, instance, response_ch, worker>>

AppInit ==
    /\ FixedTimes /\ OnlyInstance
    /\ response_ch = <<>> /\ worker = SpawnedWorker
    /\ \E start \in StartPaths, env \in {v \in Envs : v.pos_ok /\ v.write_ok} :
          LET a == Started(start, env)
          IN  /\ image_loader = a.image_loader /\ renderer = a.renderer
              /\ mode = a.mode /\ selected_index = a.selected_index
              /\ saved_zoom = a.saved_zoom /\ is_actual_size = a.is_actual_size
              /\ loader_ch = a.loader_tx /\ visible_ch = a.visible_indices_tx
              /\ cache = a.cache /\ window = a.window
              /\ ev = [kind |-> "new",
                       target |-> IF is_file(canonicalize(start))
                                  THEN Image(canonicalize(start)) ELSE NoItem,
                       luck |-> env.luck /\ is_file(canonicalize(start)), n |-> 0,
                       hint |-> a.visible_indices_tx[Len(a.visible_indices_tx)]]

\* the outcomes of the system calls the handler of e can come to: a decode for
\* the inputs that show an image, a directory listing for those that scan
EventEnvs(e) ==
    {v \in Envs :
        /\ v.pos_ok /\ v.write_ok
        /\ \/ v.luck
           \/ mode = "Single" /\ e.kind \in {"NextImage", "PrevImage", "SelectLeft",
                                             "SelectRight", "ActualSize"}
           \/ mode = "Grid" /\ Activated(e).kind = "Image"
        /\ \/ v.reversed
           \/ mode = "Grid" /\ e.kind = "Back"
           \/ mode = "Grid" /\ Activated(e).kind = "Directory"}

\* App::window_event with the input action e
AppWindowEvent(e) ==
    \E env \in EventEnvs(e) :
        Handled(handle_window_event(Idle, response_ch, e, env),
                IF Activated(e) # NoItem \/ e.kind \in {"Back", "Zoom", "Pan"}
                THEN e.kind ELSE "Handled",
                Activated(e), env.luck)

\* a zoom input; in the single view the steps are bounded
AppZoom ==
    \E amount \in {-3, 3} :
        /\ mode = "Single" => /\ renderer.zoom[1] * ZoomFactor[1] <= MaxZoomTerm
                              /\ renderer.zoom[2] * ZoomFactor[1] <= MaxZoomTerm
        /\ AppWindowEvent([kind |-> "Zoom", amount |-> amount])

\* a pan input; the offsets are bounded
AppPan ==
    \E d \in {<<10, -10>>} :
        /\ renderer.pan[1] + d[1] <= MaxPan
        /\ AppWindowEvent([kind |-> "Pan", dx |-> d[1], dy |-> d[2]])

\* WindowEvent::Resized: the window has the new size when the event arrives
AppResized ==
    \E size \in WindowSizes, env \in {v \in Envs : v.luck /\ v.reversed} :
        Handled(handle_window_event([Idle EXCEPT !.window.width = size[1],
                                                 !.window.height = size[2]],
                                    response_ch,
                                    [kind |-> "Resized", width |-> size[1],
                                     height |-> size[2]], env),
                "Handled", NoItem, FALSE)

\* WindowEvent::Moved
AppMoved ==
    \E env \in {v \in Envs : v.luck /\ v.reversed} :
        Handled(handle_window_event([Idle EXCEPT !.window.x = 40, !.window.y = 30],
                                    response_ch, [kind |-> "Moved"], env),
                "Handled", NoItem, FALSE)

\* App::user_event, UserEvent::OpenPath
AppOpenPath ==
    \E p \in OpenPaths, env \in {v \in Envs : v.pos_ok /\ v.write_ok} :
        Handled(open_path(Idle, p, env), "OpenPath",
                IF is_file(canonicalize(p)) THEN Image(canonicalize(p))
                ELSE Directory(canonicalize(p)),
                env.luck)

AppNext ==
    \/ AppWindowEvent([kind |-> "NextImage"])
    \/ AppWindowEvent([kind |-> "PrevImage"])
    \/ AppZoom
    \/ AppPan
    \/ \E p \in ClickPoints : AppWindowEvent([kind |-> "Click", x |-> p[1], y |-> p[2]])
    \/ AppWindowEvent([kind |-> "Back"])
    \/ AppWindowEvent([kind |-> "ActualSize"])
    \/ AppWindowEvent([kind |-> "SelectUp"])
    \/ AppWindowEvent([kind |-> "SelectDown"])
    \/ AppWindowEvent([kind |-> "SelectLeft"])
    \/ AppWindowEvent([kind |-> "SelectRight"])
    \/ AppWindowEvent([kind |-> "OpenSelected"])
    \/ AppWindowEvent([kind |-> "PageUp"])
    \/ AppWindowEvent([kind |-> "PageDown"])
    \/ AppWindowEvent([kind |-> "RedrawRequested"])
    \/ AppResized
    \/ AppMoved
    \/ AppOpenPath

SpecApp == AppInit /\ [][AppNext]_vars

(***************************************************************************)
(* The thumbnail thread and the cache.                                     *)
(***************************************************************************)
\* C1: once set_thumbnail has stored an entry for a path, the next lookup of
\* that path is a hit, and the image get_thumbnail returns has the stored
\* thumbnail's pixel bytes.
\* (An entry set_thumbnail stored holds the pixel buffer, not an encoded file.)
C1_CacheRoundTrip ==
    (ev.kind = "serve" /\ ~ev.request.is_directory /\ ev.entry # NoEntry
        /\ ev.entry.thumbnail_data # EncodedThumb(ev.request.path))
        => (ev.hit /\ ev.image.pixels = ev.entry.thumbnail_data)

IsVisible(request) == request.index \in worker.visible_indices
Remaining == Range(worker.pending_requests)

\* C2: a request the worker has just removed from its list is visible if any
\* request left in the list is, and no request left in the list of the same
\* visibility has a smaller index; so no removal takes a request that is not
\* visible while a visible one is pending.
C2_VisibleFirstThenIndex ==
    /\ [](worker.pc = "serve" =>
            \A r \in Remaining :
                /\ IsVisible(r) => IsVisible(worker.request)
                /\ (IsVisible(r) <=> IsVisible(worker.request))
                       => worker.request.index <= r.index)
    /\ [][(worker.pc = "pick" /\ worker'.pc = "serve") =>
              ((\E a \in Range(worker.pending_requests) : IsVisible(a))
                   => worker'.request.index \in worker.visible_indices)]_vars

\* the worker removed a visible request while a request of smaller index that
\* is not visible stays in the list
C2_Witness ==
    /\ worker.pc = "serve" /\ IsVisible(worker.request)
    /\ \E r \in Remaining : ~IsVisible(r) /\ r.index < worker.request.index

(***************************************************************************)
(* Catalog ordering and navigation.                                        *)
(***************************************************************************)
ItemCount == Len(image_loader.items)
ImageCount == Len(image_loader.image_files)
Scanned == ev.kind \in {"new", "refresh", "set_path"}

\* C5: after every refresh/set_path every Directory item precedes every Image
\* item, and the Directory items are in ascending path order.
C5_DirectoriesFirstByPath ==
    \A i, j \in 1..ItemCount :
        i < j =>
            LET a == image_loader.items[i]
                b == image_loader.items[j]
            IN  /\ ~(a.kind = "Image" /\ b.kind = "Directory")
                /\ (a.kind = "Directory" /\ b.kind = "Directory")
                       => PathCmp(a.path, b.path) = "Less"

\* a scan that returned an image before a directory and the directories out of
\* order has been sorted
C5_Witness ==
    /\ ev.kind = "set_path" /\ ev.reordered
    /\ Cardinality({i \in 1..ItemCount : image_loader.items[i].kind = "Directory"}) >= 2
    /\ \E i \in 1..ItemCount : image_loader.items[i].kind = "Image"

\* a sequence of image paths is in descending mtime order, equal mtimes in
\* ascending path order
ByTimeThenPath(s) ==
    \A i, j \in 1..Len(s) :
        (i < j /\ modified(s[i]) # NoTime /\ modified(s[j]) # NoTime) =>
            \/ modified(s[i]) > modified(s[j])
            \/ modified(s[i]) = modified(s[j]) /\ PathCmp(s[i], s[j]) = "Less"

ImagePathsOf(items) ==
    LET imgs == SelectSeq(items, LAMBDA it : it.kind = "Image")
    IN  [i \in 1..Len(imgs) |-> imgs[i].path]

\* C6: after every refresh/set_path the Image items and the navigation list are
\* in descending mtime order, images of equal mtime in ascending path order,
\* whatever order the scan returned them in.
C6_ImagesByTimeThenPath ==
    /\ ByTimeThenPath(image_loader.image_files)
    /\ ByTimeThenPath(ImagePathsOf(image_loader.items))

\* C7: open_image(p) for a p of the navigation list leaves the current path
\* equal to the canonicalized p.
C7_OpenImageSelectsPath ==
    (ev.kind = "open_image" /\ ev.listed)
        => get_current_path(image_loader) = canonicalize(ev.path)

\* C8: with n >= 1 images the index stays in 0..n-1; next_image steps +1 and
\* wraps from n-1 to 0; prev_image steps -1 and wraps from 0 to n-1; prev_image
\* right after next_image restores the index.
C8_NextPrevWrap ==
    /\ [](ImageCount >= 1 => image_loader.current_index \in 0..(ImageCount - 1))
    /\ [][(ev'.kind = "next_image" /\ ImageCount >= 1) =>
              image_loader'.current_index =
                  IF image_loader.current_index = ImageCount - 1
                  THEN 0 ELSE image_loader.current_index + 1]_vars
    /\ [][(ev'.kind = "prev_image" /\ ImageCount >= 1) =>
              image_loader'.current_index =
                  IF image_loader.current_index = 0
                  THEN ImageCount - 1 ELSE image_loader.current_index - 1]_vars
    /\ [][(ev.kind = "next_image" /\ ev'.kind = "prev_image") =>
              image_loader'.current_index = ev.from]_vars

\* next_image has wrapped from the last of three images to the first
C8_Witness ==
    /\ ev.kind = "next_image" /\ ImageCount = 3
    /\ ev.from = 2 /\ image_loader.current_index = 0

(***************************************************************************)
(* Grid layout: render, hit test, viewport hint, scroll_to_item.           *)
(***************************************************************************)
CellCount == Len(renderer.grid_items)
WindowWidth == renderer.window_size[1]
WindowHeight == renderer.window_size[2]
\* points of a cell's rectangle, as offsets from its top-left corner: the
\* corners, the edges and the middle
CellOffsets == {0, 1, grid_size \div 2, grid_size - 1, grid_size}

\* C3: a click at a point inside the rectangle where render draws cell i is
\* hit-tested to the column, the row and the index of cell i, and the hit test
\* uses render's column count.  (The column depends on x alone and the row on
\* y alone, so each axis is walked on its own and the index taken at the
\* corners.)
C3_ClickHitsDrawnCell ==
    /\ ClickCols(renderer) = RenderCols(renderer)
    /\ \A i \in 0..(CellCount - 1) :
          /\ \A dx \in CellOffsets :
                 ClickCol(RenderX(renderer, i) + dx) = RenderCol(renderer, i)
          /\ \A dy \in CellOffsets :
                 ClickRow(renderer, RenderY(renderer, i) + dy) = RenderRow(renderer, i)
          /\ \A dx, dy \in {0, grid_size} :
                 ClickIndex(renderer, RenderX(renderer, i) + dx,
                            RenderY(renderer, i) + dy) = i

\* a click landed inside a drawn cell of a scrolled grid, off the first row
\* and the first column, and the hit test returned that cell
C3_Witness ==
    /\ ev.kind = "click" /\ ev.hit >= 0 /\ ev.hit < CellCount
    /\ renderer.grid_scroll < 0
    /\ RenderRow(renderer, ev.hit) >= 1 /\ RenderCol(renderer, ev.hit) >= 1
    /\ ~Culled(renderer, ev.hit)
    /\ ev.x - RenderX(renderer, ev.hit) \in 0..grid_size
    /\ ev.y - RenderY(renderer, ev.hit) \in 0..grid_size

\* C4: every cell render draws is in the index range update_viewport sends
\* for the same window size and scroll, and both use the same column count.
C4_DrawnWithinViewport ==
    /\ RenderCols(renderer) = ViewportCols(renderer)
    /\ DrawnCells(renderer) \subseteq VisibleRange(renderer)

\* a frame of a scrolled grid drew some cells and culled cells above and
\* below them
C4_Witness ==
    /\ ev.kind = "render" /\ ev.drawn # {} /\ ev.drawn = DrawnCells(renderer)
    /\ renderer.grid_scroll < 0
    /\ \E i, j \in 0..(CellCount - 1) :
          /\ Culled(renderer, i) /\ Culled(renderer, j)
          /\ \A d \in ev.drawn : i < d /\ d < j

\* where the row of cell i is on the screen, by render's formula
RowTopOnScreen(i) == RenderY(renderer, i)
RowBottomOnScreen(i) == RenderY(renderer, i) + grid_size
RowWithinWindow(i) == RowTopOnScreen(i) >= 0 /\ RowBottomOnScreen(i) <= WindowHeight
ContentRows == Ceil(CellCount, RenderCols(renderer))
ScrollWithinRange ==
    LET content_height == ContentRows * (grid_size + spacing) + spacing
        max_scroll == Max(0, content_height - WindowHeight)
    IN  -max_scroll <= renderer.grid_scroll /\ renderer.grid_scroll <= 0

C18_ScrollAlwaysWithinRange ==
    /\ renderer.grid_scroll <= 0
    /\ -renderer.grid_scroll <= MaxScroll(renderer)

(***************************************************************************)
(* Fit to window.                                                          *)
(***************************************************************************)
ImageWidth == renderer.image_size[1]
ImageHeight == renderer.image_size[2]
\* the image times the zoom compared with a length, in exact arithmetic
ScaledEquals(side, length) == side * renderer.zoom[1] = length * renderer.zoom[2]
ScaledAtMost(side, length) == side * renderer.zoom[1] <= length * renderer.zoom[2]
ZoomAtMostOne == renderer.zoom[1] <= renderer.zoom[2]
\* the axis that reaches the window first when the image grows: the height if
\* the window is relatively wider than the image, else the width
ConstrainedAxisFills ==
    IF WindowWidth * ImageHeight > ImageWidth * WindowHeight
    THEN ScaledEquals(ImageHeight, WindowHeight)
    ELSE ScaledEquals(ImageWidth, WindowWidth)
FitsUnscaled == ImageWidth <= WindowWidth /\ ImageHeight <= WindowHeight

\* C10 as stated: the fit zoom is at most 1, the constrained axis scaled by it
\* equals the window dimension, and the scaled image exceeds the window on
\* neither axis.
C10_FitFillsWindow ==
    ev.kind = "fit" =>
        /\ ZoomAtMostOne
        /\ ConstrainedAxisFills
        /\ ScaledAtMost(ImageWidth, WindowWidth)
        /\ ScaledAtMost(ImageHeight, WindowHeight)

\* C10: the fit zoom is at most 1 and the scaled image exceeds the window on
\* neither axis; an image larger than the window on some axis has its
\* constrained axis scaled to the window dimension, and an image that fits
\* unscaled is shown at zoom 1.
C10_FitShrinksOnly ==
    ev.kind = "fit" =>
        /\ ZoomAtMostOne
        /\ ScaledAtMost(ImageWidth, WindowWidth)
        /\ ScaledAtMost(ImageHeight, WindowHeight)
        /\ IF FitsUnscaled THEN renderer.zoom = One ELSE ConstrainedAxisFills

\* an image taller and wider than the window has been fitted: the zoom is
\* below 1 and the height fills the window
C10_Witness ==
    /\ ev.kind = "fit" /\ ImageWidth > WindowWidth /\ ImageHeight > WindowHeight
    /\ renderer.zoom[1] < renderer.zoom[2]
    /\ ScaledEquals(ImageHeight, WindowHeight)
    /\ ~ScaledEquals(ImageWidth, WindowWidth)

(***************************************************************************)
(* Directory switches under the running worker: the controller starts on   *)
(* the root, activates directories by clicks on their cells and drains the *)
(* responses, while the thumbnail thread serves the batches.               *)
(***************************************************************************)
SwInit ==
    /\ FixedTimes /\ OnlyInstance
    /\ response_ch = <<>> /\ worker = SpawnedWorker
    /\ \E env \in {v \in Envs : v.luck /\ v.pos_ok /\ v.write_ok} :
          LET a == Started(<<0>>, env)
          IN  /\ image_loader = a.image_loader /\ renderer = a.renderer
              /\ mode = a.mode /\ selected_index = a.selected_index
              /\ saved_zoom = a.saved_zoom /\ is_actual_size = a.is_actual_size
              /\ loader_ch = a.loader_tx /\ visible_ch = a.visible_indices_tx
              /\ cache = a.cache /\ window = a.window
              /\ ev = [kind |-> "new", outstanding |-> Len(a.image_loader.items),
                       hint |-> a.visible_indices_tx[Len(a.visible_indices_tx)]]

\* a click on the cell of a directory: handle_window_event drains the
\* responses, sets the catalog and loads the grid
SwActivate ==
    /\ \E p \in ClickPoints, env \in {v \in Envs : v.luck /\ v.pos_ok /\ v.write_ok} :
          LET e == [kind |-> "Click", x |-> p[1], y |-> p[2]]
              a == handle_window_event(App, response_ch, e, env)
          IN  /\ Activated(e).kind = "Directory"
              /\ image_loader' = a.image_loader /\ renderer' = a.renderer
              /\ mode' = a.mode /\ selected_index' = a.selected_index
              /\ saved_zoom' = a.saved_zoom /\ is_actual_size' = a.is_actual_size
              /\ loader_ch' = a.loader_tx /\ visible_ch' = a.visible_indices_tx
              /\ cache' = a.cache /\ window' = a.window
              /\ ev' = [kind |-> "activate",
                        outstanding |-> ev.outstanding + Len(a.image_loader.items),
                        hint |-> a.visible_indices_tx[Len(a.visible_indices_tx)]]
    /\ response_ch' = <<>>
    /\ UNCHANGED <<mtime, socket, instance, worker>>

SwNext ==
    \/ SwActivate \/ WkDrain \/ WkRecvRequests \/ WkRecvVisible \/ WkSleep \/ WkPop
    \/ WkServe

SpecSwitch == SwInit /\ [][SwNext]_vars

(***************************************************************************)
(* The event loop's ticks under the running worker.  The loop waits for    *)
(* events (no control flow is set, no thread but the IPC listener holds a  *)
(* proxy): handle_window_event runs when a window event arrives, and a     *)
(* RedrawRequested event arrives after request_redraw has been called.     *)
(* window.redraw_requested is that pending request.  The thread of the     *)
(* worker runs on its own; events other than redraws may never come.       *)
(***************************************************************************)
\* AppState::new on the root: the grid is loaded and a redraw requested
TickInit ==
    /\ FixedTimes /\ OnlyInstance
    /\ response_ch = <<>> /\ worker = SpawnedWorker
    /\ \E env \in {v \in Envs : v.luck /\ v.pos_ok /\ v.write_ok} :
          LET a == Started(<<0>>, env)
          IN  /\ image_loader = a.image_loader /\ renderer = a.renderer
              /\ mode = a.mode /\ selected_index = a.selected_index
              /\ saved_zoom = a.saved_zoom /\ is_actual_size = a.is_actual_size
              /\ loader_ch = a.loader_tx /\ visible_ch = a.visible_indices_tx
              /\ cache = a.cache
              /\ window = [x |-> a.window.x, y |-> a.window.y,
                           width |-> a.window.width, height |-> a.window.height,
                           redraw_requested |-> TRUE]
              /\ ev = [kind |-> "new", outstanding |-> Len(a.image_loader.items),
                       hint |-> a.visible_indices_tx[Len(a.visible_indices_tx)]]

\* handle_window_event for an event that is no input action: the responses
\* waiting are applied, a redraw is requested for each
Tick(kind, requested) ==
    /\ renderer' = ApplyResponses(renderer, response_ch)
    /\ response_ch' = <<>>
    /\ window' = [window EXCEPT !.redraw_requested = requested \/ response_ch # <<>>]
    /\ ev' = [kind |-> kind, outstanding |-> ev.outstanding, hint |-> ev.hint,
              indices |-> [i \in 1..Len(response_ch) |-> response_ch[i].index]]
    /\ UNCHANGED <<mtime, socket, instance, image_loader, mode, selected_index, saved_zoom,
                   is_actual_size, cache, loader_ch, visible_ch, worker>>

\* the RedrawRequested event that answers a request_redraw
TickRedraw == window.redraw_requested /\ Tick("redraw", FALSE)

\* any other window event, a pointer move for one
TickOther == Tick("other", window.redraw_requested)

\* the worker with room for the response to every request of the one batch
TickServe == WkServeWithin(MaxPending)

WorkerStep == WkRecvRequests \/ WkRecvVisible \/ WkSleep \/ WkPop \/ TickServe

TickNext == TickRedraw \/ TickOther \/ WorkerStep

SpecTicks ==
    TickInit /\ [][TickNext]_vars /\ WF_vars(TickRedraw) /\ WF_vars(WorkerStep)

ZoomWithinLimits(z) == ~FracLess(z, ZoomMin) /\ ~FracLess(ZoomMax, z)
ZoomStep == ev'.kind = "zoom" /\ renderer' # renderer

\* C19 as stated: the single-view zoom is within [0.1, 50.0] in every reachable
\* state.
C19_ZoomAlwaysWithinLimits == ZoomWithinLimits(renderer.zoom)

\* C19: the single-view zoom is at most 50.0 in every reachable state and
\* within [0.1, 50.0] after every zoom input step; a zoom input step multiplies
\* or divides it by 1.1 and clamps the result to [0.1, 50.0]; fit-to-window, and
\* the toggle restoring a saved fit, may leave it below 0.1.
C19_ZoomStepWithinLimits ==
    /\ [](~FracLess(ZoomMax, renderer.zoom))
    /\ [](ev.kind = "zoom" => ZoomWithinLimits(renderer.zoom))
    /\ [][ZoomStep =>
              LET z == renderer.zoom
                  stepped == IF ev'.amount > 0 THEN <<z[1] * 11, z[2] * 10>>
                             ELSE <<z[1] * 10, z[2] * 11>>
                  clamped == IF FracLess(stepped, ZoomMin) THEN ZoomMin
                             ELSE IF FracLess(ZoomMax, stepped) THEN ZoomMax
                             ELSE stepped
              IN  renderer'.zoom[1] * clamped[2] = clamped[1] * renderer'.zoom[2]]_vars

\* a zoom-in step on an image fitted to less than 0.1 (640x2000 in a window 100
\* high: 1/20) has left the zoom at the lower limit
C19_Witness ==
    /\ ev.kind = "zoom" /\ ev.amount > 0
    /\ renderer.zoom = ZoomMin
    /\ renderer.image_size = <<640, 2000>> /\ renderer.window_size[2] = 100

(***************************************************************************)
(* Responses and the grid.                                                 *)
(***************************************************************************)
DrainStep == ev'.kind = "drain" /\ response_ch # <<>>
\* the last of the waiting responses that carries the index of cell i, 0 if none
LastFor(i) ==
    IF \E k \in 1..Len(response_ch) : response_ch[k].index = i - 1
    THEN CHOOSE k \in 1..Len(response_ch) :
             /\ response_ch[k].index = i - 1
             /\ \A m \in (k + 1)..Len(response_ch) : response_ch[m].index # i - 1
    ELSE 0

\* C14: the drain leaves the number of cells and everything but the cells
\* alone; a cell whose index no waiting response carries keeps its texture and
\* size, so a response whose index is not below the number of cells changes
\* nothing; a cell whose index a response carries takes that response's image
\* and size and keeps its path.
C14_OutOfBoundsDiscarded ==
    [][DrainStep =>
          /\ [renderer' EXCEPT !.grid_items = renderer.grid_items] = renderer
          /\ Len(renderer'.grid_items) = Len(renderer.grid_items)
          /\ \A i \in 1..Len(renderer.grid_items) :
                IF LastFor(i) = 0
                THEN renderer'.grid_items[i] = renderer.grid_items[i]
                ELSE renderer'.grid_items[i] =
                         [renderer.grid_items[i] EXCEPT
                             !.texture = response_ch[LastFor(i)].image,
                             !.image_size = <<response_ch[LastFor(i)].image.width,
                                              response_ch[LastFor(i)].image.height>>]]_vars

\* a response with index 3, made for the root's grid, was drained when the grid
\* had the three cells of <<1>>
C14_Witness ==
    /\ ev.kind = "drain"
    /\ renderer.grid_items # <<>>
    /\ \E k \in 1..Len(ev.indices) : ev.indices[k] >= Len(renderer.grid_items)

\* the thumbnails the worker can make for a cell's own path
OwnThumbnails(cell) ==
    {Thumbnail(LoaderRequest(cell.path, 0, cell.is_directory), font,
               get_thumbnail(cache, cell.path, TRUE), decodes) :
         font \in BOOLEAN, decodes \in BOOLEAN} \ {NoImage}

\* C15: no response made for a request of the grid before a directory switch
\* changes a cell of the grid built after it: every cell shows the placeholder
\* or a thumbnail of its own path.
C15_StaleResponseDiscarded ==
    \A i \in 1..Len(renderer.grid_items) :
        \/ renderer.grid_items[i].texture = Placeholder
        \/ renderer.grid_items[i].texture \in OwnThumbnails(renderer.grid_items[i])

(***************************************************************************)
(* The controller: activation, mode changes, visibility hints.             *)
(***************************************************************************)
\* the entries of a directory the catalog keeps
CatalogOf(dir) == {p \in read_dir(dir) : is_dir(p) \/ is_image_file(p)}
\* the grid has one cell per catalog item, in the catalog's order
OneCellPerItem ==
    /\ Len(renderer.grid_items) = Len(image_loader.items)
    /\ \A i \in 1..Len(image_loader.items) :
          /\ renderer.grid_items[i].path = image_loader.items[i].path
          /\ renderer.grid_items[i].is_directory = (image_loader.items[i].kind = "Directory")
DirectoriesFirst ==
    \A i, j \in 1..Len(image_loader.items) :
        (image_loader.items[i].kind = "Image" /\ image_loader.items[j].kind = "Directory")
            => j < i
ActivatedDirectory ==
    ev.kind \in {"Click", "OpenSelected"} /\ ev.target.kind = "Directory"

\* C11: after a Directory item is activated in Grid mode (by a click on its
\* cell or by Enter on the selection) the catalog holds that directory's
\* contents, each once, the grid has exactly one cell per catalog item with the
\* directories first, selected_index is 0, the scroll is 0 and the mode is Grid.
C11_ActivateDirectory ==
    ActivatedDirectory =>
        /\ image_loader.folder_path = canonicalize(ev.target.path)
        /\ {image_loader.items[i].path : i \in 1..Len(image_loader.items)}
               = CatalogOf(ev.target.path)
        /\ Len(image_loader.items) = Cardinality(CatalogOf(ev.target.path))
        /\ OneCellPerItem
        /\ DirectoriesFirst
        /\ selected_index = 0
        /\ renderer.grid_scroll = 0
        /\ mode = "Grid"

\* Enter on the second item of the root's grid, the directory <<2>>: the grid
\* shows its subdirectory and its three image entries
C11_Witness ==
    /\ ev.kind = "OpenSelected" /\ ev.target = Directory(<<2>>)
    /\ Len(renderer.grid_items) = 4
    /\ renderer.grid_items[1].is_directory /\ ~renderer.grid_items[2].is_directory

\* C16: whenever the controller is in Grid mode and has finished handling an
\* event, the last visibility hint sent to the worker is the index range computed
\* from the current grid_scroll and window size.
C16_HintIsCurrent ==
    mode = "Grid" => ev.hint = VisibleRange(renderer)

\* the event just handled opened its target: the target is the image the
\* navigation list now points to, its decode succeeded and it is shown
OpenedTarget ==
    LET p == get_current_path(image_loader')
    IN  /\ ev'.target.kind = "Image"
        /\ p = ev'.target.path
        /\ Decodes(p, ev'.luck)
        /\ renderer'.diffuse.image = Decoded(p)

\* C20: the mode changes from Grid to Single only in the handling of a click
\* on a cell, of Enter on the selection, or of an open-path, whose target is an
\* Image item that was found in the navigation list and decoded; every other
\* event handled in Grid mode leaves the mode Grid.
C20_SingleOnlyByOpenedImage ==
    [][(mode = "Grid" /\ mode' = "Single") =>
           /\ ev'.kind \in {"Click", "OpenSelected", "OpenPath"}
           /\ OpenedTarget]_vars

\* a click on the cell of an image in the grid has opened it in the single view
C20_Witness ==
    /\ mode = "Single" /\ ev.kind = "Click" /\ ev.target.kind = "Image"
    /\ renderer.diffuse.image = Decoded(ev.target.path)
    /\ ~renderer.is_grid_item

(***************************************************************************)
(* The worker: responses, the pending list, hints.                         *)
(***************************************************************************)
\* a serve step: the worker leaves "serve" with the request it had removed
ServeStep == worker.pc = "serve" /\ worker'.pc # "serve"
\* the served request got a thumbnail: a directory, a cache hit, or a decode
\* that succeeded
GotThumbnail(e) == e.request.is_directory \/ e.hit \/ e.decoded

\* C12 as stated: every request the worker processes puts exactly one
\* response, carrying the request's index, on the response channel.
C12_OneResponsePerRequest ==
    [][ServeStep =>
          /\ Len(response_ch') = Len(response_ch) + 1
          /\ response_ch'[Len(response_ch')].index = worker.request.index]_vars

\* C12: a processed request that got a thumbnail (a directory, a cache hit or
\* a successful decode) puts exactly one response, carrying the request's
\* index, at the end of the response channel; a processed image request that
\* is neither cached nor decodable puts none.
C12_ResponseIffThumbnail ==
    [][ServeStep =>
          IF GotThumbnail(ev')
          THEN /\ Len(response_ch') = Len(response_ch) + 1
               /\ SubSeq(response_ch', 1, Len(response_ch)) = response_ch
               /\ response_ch'[Len(response_ch')].index = worker.request.index
          ELSE response_ch' = response_ch]_vars

\* an image request was served with no cache hit and a failed decode, and no
\* response is in the channel
C12_Witness ==
    /\ ev.kind = "serve" /\ ~ev.request.is_directory
    /\ ~ev.hit /\ ~ev.decoded /\ response_ch = <<>>

\* the requests sent and not yet served, as the worker and its channel hold them
InService == IF worker.pc = "serve" THEN 1 ELSE 0
Count(s, x) == Cardinality({i \in 1..Len(s) : s[i] = x})
SameRequests(s, t) ==
    /\ Len(s) = Len(t)
    /\ \A i \in 1..Len(s) : Count(s, s[i]) = Count(t, s[i])
PopStep == worker.pc = "pick" /\ worker'.pc = "serve"

\* C13: the requests sent and not yet served are exactly those in the channel,
\* in the pending list or being served, so the requests served never exceed the
\* requests sent and equal them when nothing is queued or in service; receiving
\* a batch keeps every request of it and of the list, equal ones included; a pop
\* removes exactly one request from the list; a served request does not come
\* back to the list or the channel.
C13_ProcessedExactlyOnce ==
    /\ [](ev.outstanding = Queued + InService)
    /\ [][worker.pc = "requests" /\ worker'.pc = "visible" =>
              worker'.pending_requests = worker.pending_requests \o Concat(loader_ch)]_vars
    /\ [][PopStep => SameRequests(<<worker'.request>> \o worker'.pending_requests,
                                  worker.pending_requests)]_vars
    /\ [][ServeStep => /\ worker'.pending_requests = worker.pending_requests
                       /\ loader_ch' = loader_ch]_vars

\* two equal requests, from two batches of the same folder, wait in the list
C13_Witness ==
    /\ worker.pc = "pick"
    /\ \E i, j \in 1..Len(worker.pending_requests) :
          i < j /\ worker.pending_requests[i] = worker.pending_requests[j]

RecvVisibleStep == worker.pc = "visible" /\ worker'.pc = "pick"

\* C17: the drain of the hint channel empties it and leaves the visible set
\* equal to the last hint that waited, whatever waited before it (the set is
\* kept if none waited); so with the channel empty the visible set is the last
\* hint sent; and the request a pop chooses is the head of the pending list
\* ordered by that one set.
C17_LastHintWins ==
    /\ [][RecvVisibleStep =>
              /\ visible_ch' = <<>>
              /\ worker'.visible_indices =
                     IF visible_ch = <<>> THEN worker.visible_indices
                     ELSE visible_ch[Len(visible_ch)]]_vars
    /\ [](visible_ch = <<>> => worker.visible_indices = ev.hint)
    /\ [][PopStep => worker'.request =
                         Head(Prioritized(worker.pending_requests, ev.hint))
                     \/ visible_ch # <<>>]_vars

\* two different hints waited when the worker drained the channel; its visible
\* set is the second
C17_Witness ==
    /\ ev.kind = "recv_visible" /\ Len(ev.drained) = 2
    /\ ev.drained[1] # ev.drained[2]
    /\ worker.visible_indices = ev.drained[2]

(***************************************************************************)
(* The controller and the keys that move the selection or the current      *)
(* image: each key handled is recorded.                                    *)
(***************************************************************************)
SelectKeys == {"SelectUp", "SelectDown", "SelectLeft", "SelectRight",
               "NextImage", "PrevImage", "PageUp", "PageDown"}

\* App::window_event with one of these keys
SelKey ==
    \E k \in SelectKeys : \E env \in EventEnvs([kind |-> k]) :
        Handled(handle_window_event(Idle, response_ch, [kind |-> k], env), k, NoItem,
                env.luck)

SelNext == SelKey \/ AppResized \/ AppWindowEvent([kind |-> "Back"])

SpecSelect == AppInit /\ [][SelNext]_vars

(***************************************************************************)
(* The controller: back, selection moves, next/prev, open-path.            *)
(***************************************************************************)
BackInSingle == mode = "Single" /\ ev'.kind = "Back"
BackInGrid == mode = "Grid" /\ ev'.kind = "Back"

\* C21: after a back action handled in Single mode the mode is Grid, the zoom
\* factor is 1.0, the actual-size flag is off and the linear sampler is the
\* one selected.
C21_BackResetsView ==
    [][BackInSingle => /\ mode' = "Grid"
                       /\ renderer'.zoom = One
                       /\ ~is_actual_size'
                       /\ ~renderer'.is_nearest]_vars

\* C22: a back action handled in Grid mode sets the catalog to the parent of
\* the current directory, rebuilds the grid for it and resets the selection to
\* 0, the mode staying Grid; when the current directory has no parent, the
\* catalog, the grid, the selection and the mode are unchanged.
C22_BackToParent ==
    [][BackInGrid =>
          IF image_loader.folder_path # Root
          THEN LET parent == Parent(image_loader.folder_path)
               IN  /\ image_loader'.folder_path = parent
                   /\ {image_loader'.items[i].path : i \in 1..Len(image_loader'.items)}
                          = CatalogOf(parent)
                   /\ Len(image_loader'.items) = Cardinality(CatalogOf(parent))
                   /\ OneCellPerItem'
                   /\ selected_index' = 0
                   /\ mode' = "Grid"
          ELSE /\ image_loader' = image_loader
               /\ renderer'.grid_items = renderer.grid_items
               /\ selected_index' = selected_index
               /\ mode' = "Grid"]_vars

\* back in the grid of a directory of the root has loaded the root's grid: the
\* batch of its four items has just been sent
C22_Witness ==
    /\ ev.kind = "Back" /\ mode = "Grid"
    /\ image_loader.folder_path = Root
    /\ loader_ch # <<>> /\ Len(loader_ch[1]) = 4
    /\ Len(renderer.grid_items) = 4 /\ selected_index = 0

RowsPerPage == Max(1, Floor(renderer.window_size[2], grid_size + spacing))
PageStep(kind) == mode = "Grid" /\ ev'.kind = kind /\ ItemCount >= 1

\* C23: PageDown / PageUp in Grid mode with n >= 1 items sets selected_index to
\* clamp(selected_index +/- rows_per_page * cols, 0, n - 1), rows_per_page being
\* max(1, floor(window_height / (cell + spacing))) and cols the column count of
\* the grid; the selection stays within [0, n - 1].
C23_PageMovesOneViewport ==
    /\ [][PageStep("PageDown") =>
              selected_index' = Clamp(selected_index + RowsPerPage * RenderCols(renderer),
                                      0, ItemCount - 1)]_vars
    /\ [][PageStep("PageUp") =>
              selected_index' = Clamp(selected_index - RowsPerPage * RenderCols(renderer),
                                      0, ItemCount - 1)]_vars
    /\ [](ItemCount >= 1 => selected_index \in 0..(ItemCount - 1))

\* PageDown in a window two columns wide and one row high has moved the
\* selection from the first of four items to the third, unclamped
C23_Witness ==
    /\ ev.kind = "PageDown" /\ mode = "Grid"
    /\ RenderCols(renderer) = 2 /\ RowsPerPage = 1
    /\ ItemCount = 4 /\ selected_index = 2

\* a selection key handled in Grid mode moves the selection by delta, or
\* leaves it and the scroll offset alone when that would leave the catalog
MovesBy(kind, delta) ==
    (mode = "Grid" /\ ev'.kind = kind) =>
        IF selected_index + delta >= 0 /\ selected_index + delta < ItemCount
        THEN selected_index' = selected_index + delta
        ELSE /\ selected_index' = selected_index
             /\ renderer'.grid_scroll = renderer.grid_scroll

\* C24: in Grid mode Up/Down move the selection by exactly cols indices and
\* Left/Right by exactly one index, cols being the column count the renderer
\* draws the grid with; a move whose target lies outside [0, n - 1] leaves
\* selected_index and the scroll offset unchanged.
C24_SelectionMoves ==
    /\ [][MovesBy("SelectUp", -RenderCols(renderer))]_vars
    /\ [][MovesBy("SelectDown", RenderCols(renderer))]_vars
    /\ [][MovesBy("SelectLeft", -1)]_vars
    /\ [][MovesBy("SelectRight", 1)]_vars

\* Down in a grid two columns wide has moved the selection from the first item
\* to the third, one row below, and the grid has scrolled to show it
C24_Witness ==
    /\ ev.kind = "SelectDown" /\ mode = "Grid"
    /\ RenderCols(renderer) = 2 /\ ItemCount = 4
    /\ selected_index = 2 /\ renderer.grid_scroll < 0

\* a key handled in Single mode with the navigation list not empty
SingleKey(kinds) == mode = "Single" /\ ev'.kind \in kinds /\ ImageCount >= 1
GridFrame ==
    /\ mode' = mode
    /\ selected_index' = selected_index
    /\ renderer'.grid_scroll = renderer.grid_scroll

\* C25: in Single mode next/prev and right/left change the navigation list's
\* index by +1 / -1 modulo the number of images and leave the mode, the grid's
\* selected_index and the grid's scroll offset unchanged; in Grid mode the same
\* inputs leave the navigation list's index unchanged.
C25_SingleKeysStepImages ==
    /\ [][SingleKey({"NextImage", "SelectRight"}) =>
              /\ image_loader'.current_index
                     = (image_loader.current_index + 1) % ImageCount
              /\ GridFrame]_vars
    /\ [][SingleKey({"PrevImage", "SelectLeft"}) =>
              /\ image_loader'.current_index
                     = (image_loader.current_index + ImageCount - 1) % ImageCount
              /\ GridFrame]_vars
    /\ [][(mode = "Grid" /\ ev'.kind \in {"NextImage", "PrevImage",
                                          "SelectLeft", "SelectRight"}) =>
              image_loader'.current_index = image_loader.current_index]_vars

\* the program was started on the second of two images; next has wrapped to
\* the first and shows it
C25_Witness ==
    /\ ev.kind = "NextImage" /\ ev.n = 1 /\ mode = "Single"
    /\ ImageCount = 2 /\ image_loader.current_index = 0
    /\ renderer.diffuse.image = Decoded(get_current_path(image_loader))

\* the catalog holds the entries of dir that are directories or images, once each
CatalogIs(dir) ==
    /\ image_loader.folder_path = dir
    /\ {image_loader.items[i].path : i \in 1..ItemCount} = CatalogOf(dir)
    /\ ItemCount = Cardinality(CatalogOf(dir))

\* C26: after an open-path notification for an image file that is listed in
\* its parent directory and decodes, whatever the mode was, the catalog is the
\* file's parent directory, the mode is Single, the navigation list's current
\* path is the file and selected_index is the file's position in the item
\* list; after an open-path notification for a directory the mode is Grid, the
\* catalog is that directory and selected_index is 0.
C26_OpenPath ==
    LET path == ev.target.path
    IN  ev.kind = "OpenPath" =>
          /\ (ev.target.kind = "Image" /\ path \in CatalogOf(Parent(path))
                 /\ Decodes(path, ev.luck)) =>
                /\ CatalogIs(Parent(path))
                /\ mode = "Single"
                /\ get_current_path(image_loader) = path
                /\ selected_index < ItemCount
                /\ image_loader.items[selected_index + 1] = Image(path)
          /\ (ev.target.kind = "Directory" /\ is_dir(path)) =>
                /\ CatalogIs(path)
                /\ mode = "Grid"
                /\ selected_index = 0

\* an open-path notification for the second image of directory <<1>> has
\* switched the catalog to <<1>> and shows the image, selected in the grid
C26_Witness ==
    /\ ev.kind = "OpenPath" /\ ev.target = Image(<<1, 2>>)
    /\ mode = "Single" /\ image_loader.folder_path = <<1>>
    /\ ItemCount = 3 /\ selected_index > 0
    /\ renderer.diffuse.image = Decoded(<<1, 2>>)

(***************************************************************************)
(* The event loop and the worker's responses.                              *)
(***************************************************************************)
\* C27: every response the worker emits is eventually drained by the
\* foreground at an event-loop tick, even when no user input or other window
\* event arrives after the response was emitted.
C27_ResponsesEventuallyDrained == (response_ch # <<>>) ~> (response_ch = <<>>)


(***************************************************************************)
(* The cache manager on its own: lookups and writes of thumbnails and of   *)
(* the window settings against a database a previous run has left, whose   *)
(* reads and inserts may fail.                                             *)
(***************************************************************************)
\* paths looked up and written
CachePaths == {<<3>>, <<4>>}
\* stored bytes too short to be either struct
Truncated == [schema |-> "bytes", value |-> <<>>]
CacheImages == {resize_to_fill(Decoded(p), ThumbSide, ThumbSide) : p \in CachePaths}
SettingsInputs == {[x |-> 10, y |-> 20, width |-> 600, height |-> 300, none |-> FALSE],
                   [x |-> -5, y |-> 0, width |-> 1280, height |-> 720, none |-> FALSE]}

\* CacheManager::new: the database is opened as the last run left it
CacheInit ==
    /\ FixedTimes /\ OnlyInstance
    /\ \E left \in [CachePaths \cup {WindowKey} -> {Absent, Truncated}] :
          cache = [k \in Keys |-> IF k \in DOMAIN left THEN left[k] ELSE Absent]
    /\ ev = [kind |-> "new"]
    /\ image_loader = NewLoader(<<0>>, Listing(Root, TRUE))
    /\ window = DefaultWindow
    /\ renderer = NewRenderer(DefaultWindow.width, DefaultWindow.height)
    /\ mode = "Grid" /\ selected_index = 0 /\ saved_zoom = One
    /\ is_actual_size = FALSE
    /\ loader_ch = <<>> /\ visible_ch = <<>> /\ response_ch = <<>>
    /\ worker = SpawnedWorker

restOfCache == <<mtime, socket, instance, window, image_loader, renderer, mode, selected_index,
                 saved_zoom, is_actual_size, loader_ch, visible_ch, response_ch,
                 worker>>

CacheGet ==
    /\ \E path \in CachePaths, ok \in BOOLEAN :
          ev' = [kind |-> "get", key |-> get_key(path), ok |-> ok, before |-> cache,
                 entry |-> cache_get(cache, path, ok),
                 settings |-> NoSettings]
    /\ UNCHANGED <<cache, restOfCache>>

CacheSetThumbnail ==
    /\ \E path \in CachePaths, img \in CacheImages, ok \in BOOLEAN :
          /\ cache' = set_thumbnail(cache, path, img, ok)
          /\ ev' = [kind |-> "set", key |-> get_key(path), ok |-> ok, before |-> cache,
                    entry |-> NoEntry, settings |-> NoSettings]
    /\ UNCHANGED restOfCache

CacheGetWindowSettings ==
    /\ \E ok \in BOOLEAN :
          ev' = [kind |-> "get_window_settings", key |-> WindowKey, ok |-> ok,
                 before |-> cache, entry |-> NoEntry,
                 settings |-> get_window_settings(cache, ok)]
    /\ UNCHANGED <<cache, restOfCache>>

CacheSetWindowSettings ==
    /\ \E settings \in SettingsInputs, ok \in BOOLEAN :
          /\ cache' = set_window_settings(cache, settings, ok)
          /\ ev' = [kind |-> "set_window_settings", key |-> WindowKey, ok |-> ok,
                    before |-> cache, entry |-> NoEntry, settings |-> NoSettings]
    /\ UNCHANGED restOfCache

CacheNext ==
    \/ CacheGet \/ CacheSetThumbnail \/ CacheGetWindowSettings \/ CacheSetWindowSettings

SpecCache == CacheInit /\ [][CacheNext]_vars

(***************************************************************************)
(* Failures of the cache, of the catalog and the worker's cache writes.    *)
(***************************************************************************)
\* what the last operation found stored under its key
StoredBefore == ev.before[ev.key]

NavigationCalls == {"next_image", "prev_image", "open_image", "load_current_image"}

\* C29: after refresh or set_path on a directory that cannot be read the item
\* list and the navigation list are empty and the current index is 0; on an
\* empty navigation list next_image, prev_image, open_image and
\* load_current_image return nothing and leave the loader as it was.
C29_UnreadableIsEmpty ==
    /\ []((ev.kind \in {"refresh", "set_path"} /\ ~is_dir(image_loader.folder_path))
             => /\ image_loader.items = <<>>
                /\ image_loader.image_files = <<>>
                /\ image_loader.current_index = 0)
    /\ [][(image_loader.image_files = <<>> /\ ev'.kind \in NavigationCalls)
             => (ev'.returned = NoImage /\ image_loader' = image_loader)]_vars

\* a navigation call on the empty list an unreadable directory left
C29_Witness ==
    /\ ev.kind \in NavigationCalls
    /\ ~is_dir(image_loader.folder_path)
    /\ image_loader.image_files = <<>>


\* C30: a step changes the database only if it is the worker serving an image
\* request that missed the cache and whose source decoded, and then only the
\* value under that request's path; a directory request or a hit leaves the
\* database as it was, and the window settings the foreground stored stay as
\* they are through every step of the worker.
C30_WorkerWritesOwnPathOnly ==
    [][/\ cache' # cache
           => /\ ev'.kind = "serve"
              /\ ~ev'.request.is_directory /\ ~ev'.hit /\ ev'.decoded
              /\ \A k \in Keys \ {ev'.request.path} : cache'[k] = cache[k]
       /\ cache'[WindowKey] = cache[WindowKey]
       /\ get_window_settings(cache', TRUE) = get_window_settings(cache, TRUE)]_vars

\* the worker has stored the thumbnail of a request beside the window settings
C30_Witness ==
    /\ ev.kind = "serve" /\ ~ev.request.is_directory /\ ~ev.hit /\ ev.decoded
    /\ cache[ev.request.path] # Absent
    /\ get_window_settings(cache, TRUE) # NoSettings


(***************************************************************************)
(* The two lists of the catalog, the cells of the grid, the worker's       *)
(* progress, and what the modes and flags of the controller agree on.      *)
(***************************************************************************)
DirectoryCount == Cardinality({i \in 1..ItemCount : image_loader.items[i].kind = "Directory"})

\* the navigation list is the Image items' paths, in the items' order
NavigationIsImageItems == image_loader.image_files = ImagePathsOf(image_loader.items)

\* open_image of the path of the Image item at a grid index leaves the
\* navigation index at that index less the number of Directory items
OpenImageByGridIndex ==
    \A i \in 1..ItemCount :
        (ev'.kind = "open_image" /\ image_loader.items[i] = Image(ev'.path))
            => image_loader'.current_index = (i - 1) - DirectoryCount

\* C31: after every refresh/set_path the navigation list is the image-only
\* subsequence of the item list, in the same relative order; so opening the
\* Image item at grid index i sets the navigation index to i minus the number
\* of Directory items.
C31_NavigationIsImageSubsequence ==
    /\ []NavigationIsImageItems
    /\ [][OpenImageByGridIndex]_vars


\* the event being handled changes the catalog: a Directory item is activated,
\* back is pressed in the grid of a directory that has a parent, or an
\* open-path notification arrives
CatalogChange ==
    \/ ev'.kind \in {"Click", "OpenSelected"} /\ ev'.target.kind = "Directory"
    \/ BackInGrid /\ image_loader.folder_path # Root
    \/ ev'.kind = "OpenPath"

\* the requests of the catalog's items: one per item, numbered by position
RequestsOfItems ==
    [i \in 1..ItemCount |->
        [path |-> image_loader.items[i].path, index |-> i - 1,
         is_directory |-> image_loader.items[i].kind = "Directory"]]

FreshCells == \A i \in 1..Len(renderer.grid_items) : renderer.grid_items[i].texture = Placeholder

\* C32: whenever the foreground has finished handling an event the renderer
\* holds one grid cell per catalog item, cell i with the path and directory flag
\* of item i; every catalog change (directory activation, back in Grid,
\* open-path) rebuilds the cells and sends one batch holding one request per
\* item, numbered by the item's position.
C32_CellsAndRequestsFollowCatalog ==
    /\ []OneCellPerItem
    /\ [][CatalogChange => (FreshCells' /\ loader_ch' = <<RequestsOfItems'>>)]_vars

\* back in the grid of <<1>> has rebuilt the root's four cells and sent its batch
C32_Witness ==
    /\ ev.kind = "Back" /\ mode = "Grid" /\ image_loader.folder_path = Root
    /\ ItemCount = 4 /\ OneCellPerItem
    /\ loader_ch = <<RequestsOfItems>>


(***************************************************************************)
(* The worker's progress: the root's batch is the only one submitted, the  *)
(* foreground goes on sending hints, and the thread keeps running (its     *)
(* loop has no blocking call, and every decode returns).                   *)
(***************************************************************************)
ProgressNext == WkUpdateViewport \/ WorkerStep

SpecProgress == HintsInit /\ [][ProgressNext]_vars /\ WF_vars(WorkerStep)

\* nothing submitted waits to be served
AllProcessed ==
    /\ loader_ch = <<>> /\ worker.pending_requests = <<>>
    /\ worker.pc # "serve" /\ ev.outstanding = 0

\* the request a pop removes sorts before every request it leaves in the list
PopTakesFirst ==
    PopStep => \A i \in 1..Len(worker'.pending_requests) :
                   RequestCmp(worker.visible_indices, worker'.request,
                              worker'.pending_requests[i]) # "Greater"

\* C33: with finitely many requests submitted and every decode returning, the
\* worker eventually has processed every submitted request, those never
\* visible included, and its pending list stays empty; each turn of the loop
\* with a request pending removes one, and a request is left in the list only
\* when the one removed sorts before it.
C33_EveryRequestProcessed ==
    /\ <>[]AllProcessed
    /\ [][PopTakesFirst]_vars
    /\ [][(worker.pc = "pick" /\ worker.pending_requests # <<>> /\ worker' # worker)
              => Len(worker'.pending_requests) = Len(worker.pending_requests) - 1]_vars

\* the last request served was not in the visible set
C33_Witness ==
    /\ AllProcessed /\ ev.kind = "serve"
    /\ worker.visible_indices # {}
    /\ ev.request.index \notin worker.visible_indices


\* the worker has nothing pending or in service and every channel is empty
Quiescent ==
    /\ loader_ch = <<>> /\ visible_ch = <<>> /\ response_ch = <<>>
    /\ worker.pending_requests = <<>> /\ worker.pc # "serve"

\* C34: once the worker's pending list and all channels are empty, every grid
\* cell shows its placeholder or a thumbnail made from the path of the item now
\* at its index, never one made for an item of a directory loaded before.
C34_QuiescentCellsAreCurrent ==
    Quiescent =>
        \A i \in 1..Len(renderer.grid_items) :
            \/ renderer.grid_items[i].texture = Placeholder
            \/ renderer.grid_items[i].texture \in OwnThumbnails(renderer.grid_items[i])


ModeMatchesFlag == (mode = "Grid") <=> renderer.is_grid_item

\* a zoom input handled in Grid mode moves nothing but the grid's scroll; in
\* Single mode it steps the zoom (unless it is at a limit) and leaves the
\* scroll and the pan
ZoomInput ==
    ev'.kind = "Zoom" =>
        IF mode = "Grid"
        THEN [renderer' EXCEPT !.grid_scroll = renderer.grid_scroll] = renderer
        ELSE /\ [renderer' EXCEPT !.zoom = renderer.zoom] = renderer
             /\ renderer'.zoom # renderer.zoom \/ renderer.zoom \in {ZoomMin, ZoomMax}

\* a pan input handled in Grid mode changes nothing in the renderer; in Single
\* mode it moves the pan and nothing else
PanInput ==
    ev'.kind = "Pan" =>
        IF mode = "Grid"
        THEN renderer' = renderer
        ELSE /\ [renderer' EXCEPT !.pan = renderer.pan] = renderer
             /\ renderer'.pan # renderer.pan

\* C35: between events the mode is Grid exactly when the renderer's
\* is_grid_item flag is set; so a zoom input scrolls the grid, and a pan input
\* does nothing, exactly in Grid mode, and in Single mode zoom and pan inputs
\* change the zoom and the pan of the single view and never the grid's scroll.
C35_ModeAndFlagAgree ==
    /\ []ModeMatchesFlag
    /\ [][ZoomInput]_vars
    /\ [][PanInput]_vars

\* a zoom input has scrolled the grid
C35_Witness ==
    /\ ev.kind = "Zoom" /\ mode = "Grid" /\ renderer.is_grid_item
    /\ renderer.grid_scroll # 0

\* C36: in every reachable state selected_index is a position of the catalog's
\* item list when the list is non-empty, and 0 when the list is empty, whatever
\* clicks, arrow and page keys, directory changes, back actions and open-path
\* events came before.
C36_SelectionIsValid ==
    IF ItemCount = 0 THEN selected_index = 0
    ELSE selected_index >= 0 /\ selected_index < ItemCount

\* the selection stands on the last of several items, moved there by a key or a
\* click
C36_Witness ==
    /\ mode = "Grid" /\ ItemCount >= 3 /\ selected_index = ItemCount - 1
    /\ ev.kind \in {"Handled", "Click"}

\* the sampler the renderer has selected, and the one the single view's bind
\* group was built with
SelectedSampler == IF renderer.is_nearest THEN "nearest" ELSE "linear"
BoundSampler == renderer.diffuse.sampler

\* C37: in every reachable state the nearest-neighbour sampler is the selected
\* and the bound one exactly when is_actual_size is on: after an actual-size
\* toggle, also one whose reload of the image fails, after next/prev and the
\* arrow keys, after back and after open-path.
C37_SamplerMatchesActualSize ==
    /\ SelectedSampler = "nearest" <=> is_actual_size
    /\ BoundSampler = "nearest" <=> is_actual_size

\* in Grid mode the actual-size flag is off and the smoothing sampler is selected
GridIsPlain ==
    mode = "Grid" => ~is_actual_size /\ SelectedSampler = "linear"

\* a step from Grid mode into Single mode binds the smoothing sampler, leaves
\* the flag off and the zoom at fit-to-window
EntersSinglePlain ==
    mode = "Grid" /\ mode' = "Single" =>
        /\ ~is_actual_size' /\ SelectedSampler' = "linear"
        /\ BoundSampler' = "linear"
        /\ renderer'.zoom = FitZoom(renderer')

\* C38: whenever the mode is Grid, is_actual_size is off and the smoothing
\* sampler is selected, however Grid mode was reached (startup, back, open-path
\* of a directory); so every entry into Single mode starts with the smoothing
\* sampler and the fit-to-window zoom.
C38_GridModeIsPlain == []GridIsPlain /\ [][EntersSinglePlain]_vars

(***************************************************************************)
(* Two processes of the program started side by side: main's connect to    *)
(* the IPC name, the cache database it opens, and the listener thread's    *)
(* bind with its cleanup and retry.  The name is a socket file (paths are  *)
(* supported): connect succeeds when the process whose bind made the file  *)
(* still listens, bind fails with AddrInUse while the file exists.  The    *)
(* database takes an exclusive lock that a process holds until it ends.    *)
(***************************************************************************)
Procs == {1, 2}
\* args[1] of a process
ArgPaths == {<<1>>, <<3>>}
\* a socket file an instance that crashed earlier has left
LeftSocket == [file |-> TRUE, owner |-> 0]

\* process q has opened the cache database and lives
HoldsDb(q) == instance[q].pc \in {"resumed", "cleanup", "retry", "listening", "no_listener"}
\* a connect to the name reaches the listener of q
Listens(q) == socket.file /\ socket.owner = q /\ instance[q].pc = "listening"

\* the variables of the one running instance
restOfIpc == <<mtime, window, image_loader, renderer, mode, selected_index,
               saved_zoom, is_actual_size, cache, loader_ch, visible_ch, response_ch,
               worker>>

\* two processes are about to enter main
IpcInit ==
    /\ FixedTimes
    /\ socket \in {NoSocket, LeftSocket}
    /\ instance \in [Procs -> {[pc |-> "main", arg |-> a, peer |-> 0, conns |-> <<>>,
                                 events |-> <<>>, met_running |-> FALSE] : a \in ArgPaths}]
    /\ ev = [kind |-> "start", proc |-> 0, ok |-> TRUE, live |-> FALSE]
    /\ image_loader = NewLoader(<<0>>, Listing(Root, TRUE))
    /\ window = DefaultWindow
    /\ renderer = NewRenderer(DefaultWindow.width, DefaultWindow.height)
    /\ mode = "Grid" /\ selected_index = 0 /\ saved_zoom = One
    /\ is_actual_size = FALSE
    /\ cache = [k \in Keys |-> Absent]
    /\ loader_ch = <<>> /\ visible_ch = <<>> /\ response_ch = <<>>
    /\ worker = SpawnedWorker

\* main: LocalSocketStream::connect(name)
IpcConnect(p) ==
    /\ instance[p].pc = "main"
    /\ LET ok == \E q \in Procs : Listens(q)
           running == \E q \in Procs \ {p} : HoldsDb(q)
       IN  /\ instance' = [instance EXCEPT ![p].pc = IF ok THEN "connected" ELSE "opening",
                                           ![p].peer = IF ok THEN socket.owner ELSE 0,
                                           ![p].met_running = running]
           /\ ev' = [kind |-> "connect", proc |-> p, ok |-> ok, live |-> running]
    /\ UNCHANGED <<socket, restOfIpc>>

\* main: stream.write_all(path), its result dropped, and return
IpcForward(p) ==
    /\ instance[p].pc = "connected"
    /\ LET q == instance[p].peer
           ok == instance[q].pc = "listening"
       IN  /\ instance' = [instance EXCEPT ![p].pc = "exited",
                                           ![q].conns = IF ok THEN Append(@, instance[p].arg)
                                                        ELSE @]
           /\ ev' = [kind |-> "write_all", proc |-> p, ok |-> ok, live |-> ok]
    /\ UNCHANGED <<socket, restOfIpc>>

\* main: CacheManager::new, sled::open(..).expect(..); then the event loop runs
\* and AppState::new spawns the listener thread
IpcOpenCache(p) ==
    /\ instance[p].pc = "opening"
    /\ LET ok == ~\E q \in Procs \ {p} : HoldsDb(q)
       IN  /\ instance' = [instance EXCEPT ![p].pc = IF ok THEN "resumed" ELSE "panicked"]
           /\ ev' = [kind |-> "open", proc |-> p, ok |-> ok, live |-> ~ok]
    /\ UNCHANGED <<socket, restOfIpc>>

\* listener thread: LocalSocketListener::bind(name), first attempt
IpcBind(p) ==
    /\ instance[p].pc = "resumed"
    /\ instance' = [instance EXCEPT ![p].pc = IF socket.file THEN "cleanup" ELSE "listening"]
    /\ socket' = IF socket.file THEN socket ELSE [file |-> TRUE, owner |-> p]
    /\ ev' = [kind |-> "bind", proc |-> p, ok |-> ~socket.file, live |-> FALSE]
    /\ UNCHANGED restOfIpc

\* listener thread, AddrInUse arm: remove_file(name), its result dropped
IpcRemoveFile(p) ==
    /\ instance[p].pc = "cleanup"
    /\ \E ok \in BOOLEAN :
          /\ socket' = IF ok THEN NoSocket ELSE socket
          /\ ev' = [kind |-> "remove_file", proc |-> p, ok |-> ok /\ socket.file,
                    live |-> \E q \in Procs : Listens(q)]
    /\ instance' = [instance EXCEPT ![p].pc = "retry"]
    /\ UNCHANGED restOfIpc

\* listener thread, AddrInUse arm: the second bind and its expect; the panic
\* of the thread ends the process in a build whose panics abort, and only the
\* thread otherwise
IpcRebind(p) ==
    /\ instance[p].pc = "retry"
    /\ IF socket.file
       THEN /\ \E end \in {"aborted", "no_listener"} :
                  instance' = [instance EXCEPT ![p].pc = end]
            /\ socket' = socket
       ELSE /\ instance' = [instance EXCEPT ![p].pc = "listening"]
            /\ socket' = [file |-> TRUE, owner |-> p]
    /\ ev' = [kind |-> "rebind", proc |-> p, ok |-> ~socket.file, live |-> FALSE]
    /\ UNCHANGED restOfIpc

\* listener thread: one connection of listener.incoming() read to its end and
\* sent on as UserEvent::OpenPath
IpcAccept(p) ==
    /\ instance[p].pc = "listening" /\ instance[p].conns # <<>>
    /\ instance' = [instance EXCEPT ![p].conns = Tail(@),
                                    ![p].events = Append(@, Head(instance[p].conns))]
    /\ ev' = [kind |-> "accept", proc |-> p, ok |-> TRUE, live |-> TRUE]
    /\ UNCHANGED <<socket, restOfIpc>>

\* a listening instance is killed: its socket file stays
IpcCrash(p) ==
    /\ instance[p].pc = "listening"
    /\ instance' = [instance EXCEPT ![p].pc = "crashed"]
    /\ ev' = [kind |-> "crash", proc |-> p, ok |-> TRUE, live |-> FALSE]
    /\ UNCHANGED <<socket, restOfIpc>>

IpcNext ==
    \/ \E p \in Procs : IpcConnect(p)
    \/ \E p \in Procs : IpcForward(p)
    \/ \E p \in Procs : IpcOpenCache(p)
    \/ \E p \in Procs : IpcBind(p)
    \/ \E p \in Procs : IpcRemoveFile(p)
    \/ \E p \in Procs : IpcRebind(p)
    \/ \E p \in Procs : IpcAccept(p)
    \/ \E p \in Procs : IpcCrash(p)

SpecIpc == IpcInit /\ [][IpcNext]_vars

\* at most one living process holds a listener bound to the name
OneListener == Cardinality({p \in Procs : instance[p].pc = "listening"}) <= 1

\* a process that found another instance running when it started has connected
\* to it, and forwards its path and exits
StartedBesideForwards ==
    \A p \in Procs : instance[p].met_running => instance[p].pc \in {"connected", "exited"}

\* the cleanup removes no socket file whose instance still listens
CleanupSparesLive == ev'.kind = "remove_file" /\ ev'.ok => ~ev'.live

\* a second bind failure ends the process
SecondFailureAborts ==
    \A p \in Procs : ev'.kind = "rebind" /\ ev'.proc = p /\ ~ev'.ok =>
                          instance'[p].pc = "aborted"

\* C39: at most one running instance listens on the IPC name; a process started
\* while another instance is running forwards its path and exits; the cleanup
\* after AddrInUse removes only the socket file a crashed instance left, never
\* that of an instance still running, under every interleaving of two starting
\* processes; and a second bind failure after the retry aborts startup.
C39_SingleInstance ==
    /\ []OneListener
    /\ []StartedBesideForwards
    /\ [][CleanupSparesLive]_vars
    /\ [][SecondFailureAborts]_vars

====
